---------------------------- MODULE Spec2Model ----------------------------
(***************************************************************************)
(* Verification model of the SQL validation / optimization pipeline:       *)
(*   src/src/agent/validator.py  (QueryValidator)                          *)
(*   src/src/agent/optimizer.py  (QueryOptimizer)                          *)
(* SQL text is a string; a character is a string of length 1.  Every       *)
(* regular expression of the source is translated into an operator that    *)
(* scans the text the way Python's re module does.                         *)
(***************************************************************************)
EXTENDS Integers, Sequences, FiniteSets, TLC

(***************************************************************************)
(* Python str primitives                                                   *)
(***************************************************************************)
Char(s, i) == SubSeq(s, i, i)

LowerChars == "abcdefghijklmnopqrstuvwxyz"
UpperChars == "ABCDEFGHIJKLMNOPQRSTUVWXYZ"
DigitChars == "0123456789"

LowerSet == {Char(LowerChars, i) : i \in 1..26}
UpperSet == {Char(UpperChars, i) : i \in 1..26}
DigitSet == {Char(DigitChars, i) : i \in 1..10}

\* \s of the re module (the model's texts use space, tab and newline)
SpaceSet == {" ", "\t", "\n"}
\* \w of the re module
WordSet == LowerSet \cup UpperSet \cup DigitSet \cup {"_"}
HexSet == DigitSet \cup {"a", "b", "c", "d", "e", "f", "A", "B", "C", "D", "E", "F"}

IsSpace(c) == c \in SpaceSet
IsWord(c) == c \in WordSet
IsDigit(c) == c \in DigitSet

UpTable == [c \in LowerSet |-> Char(UpperChars, CHOOSE i \in 1..26 : Char(LowerChars, i) = c)]
UpperChar(c) == IF c \in LowerSet THEN UpTable[c] ELSE c

LowTable == [c \in UpperSet |-> Char(LowerChars, CHOOSE i \in 1..26 : Char(UpperChars, i) = c)]
LowerChar(c) == IF c \in UpperSet THEN LowTable[c] ELSE c

\* str.lower()
RECURSIVE Lower(_)
Lower(s) == IF Len(s) = 0 THEN ""
           ELSE IF Len(s) = 1 THEN LowerChar(s)
           ELSE Lower(SubSeq(s, 1, Len(s) \div 2)) \o Lower(SubSeq(s, (Len(s) \div 2) + 1, Len(s)))

\* str.upper()
RECURSIVE Upper(_)
Upper(s) == IF Len(s) = 0 THEN ""
           ELSE IF Len(s) = 1 THEN UpperChar(s)
           ELSE Upper(SubSeq(s, 1, Len(s) \div 2)) \o Upper(SubSeq(s, (Len(s) \div 2) + 1, Len(s)))

\* text[i:] starts with lit
At(s, i, lit) == /\ i >= 1
                 /\ i + Len(lit) - 1 <= Len(s)
                 /\ SubSeq(s, i, i + Len(lit) - 1) = lit
\* the same under re.IGNORECASE; lit is written in upper case
AtCI(s, i, lit) == /\ i >= 1
                   /\ i + Len(lit) - 1 <= Len(s)
                   /\ Upper(SubSeq(s, i, i + Len(lit) - 1)) = lit

\* `sub in s`
Contains(s, sub) == \E i \in 1..(Len(s) - Len(sub) + 1) : At(s, i, sub)
\* s.find(sub) from position i, 1-based; 0 when absent
FindFrom(s, sub, i) ==
    IF \E j \in i..(Len(s) - Len(sub) + 1) : At(s, j, sub)
    THEN CHOOSE j \in i..(Len(s) - Len(sub) + 1) :
             /\ At(s, j, sub)
             /\ \A k \in i..(j - 1) : ~At(s, k, sub)
    ELSE 0
StartsWith(s, p) == At(s, 1, p)
EndsWith(s, p) == At(s, Len(s) - Len(p) + 1, p)

\* s.count(sub): non-overlapping occurrences, left to right
RECURSIVE CountFrom(_, _, _)
CountFrom(s, sub, i) ==
    LET j == FindFrom(s, sub, i)
    IN IF j = 0 THEN 0 ELSE 1 + CountFrom(s, sub, j + Len(sub))
Count(s, sub) == CountFrom(s, sub, 1)

\* s.replace(old, new)
RECURSIVE ReplaceFrom(_, _, _, _)
ReplaceFrom(s, old, new, i) ==
    LET j == FindFrom(s, old, i)
    IN IF j = 0 THEN SubSeq(s, i, Len(s))
       ELSE SubSeq(s, i, j - 1) \o new \o ReplaceFrom(s, old, new, j + Len(old))
Replace(s, old, new) == ReplaceFrom(s, old, new, 1)

\* s.rstrip(';')
RECURSIVE RStripSemi(_)
RStripSemi(s) ==
    IF s # "" /\ Char(s, Len(s)) = ";" THEN RStripSemi(SubSeq(s, 1, Len(s) - 1)) ELSE s

\* s.strip()
RECURSIVE LStrip(_)
LStrip(s) == IF s # "" /\ IsSpace(Head(s)) THEN LStrip(Tail(s)) ELSE s
RECURSIVE RStrip(_)
RStrip(s) ==
    IF s # "" /\ IsSpace(Char(s, Len(s))) THEN RStrip(SubSeq(s, 1, Len(s) - 1)) ELSE s
Strip(s) == LStrip(RStrip(s))

\* str(n) for a natural number
RECURSIVE ToStr(_)
ToStr(n) == IF n < 10 THEN Char(DigitChars, n + 1)
            ELSE ToStr(n \div 10) \o Char(DigitChars, (n % 10) + 1)

(***************************************************************************)
(* Scanning helpers for the regular expressions.  A position is the index  *)
(* of the next character to read; Len(s) + 1 is the end of the text.       *)
(***************************************************************************)
\* position after a greedy \s*
RECURSIVE SkipSpace(_, _)
SkipSpace(s, i) == IF i <= Len(s) /\ IsSpace(Char(s, i)) THEN SkipSpace(s, i + 1) ELSE i
\* position after a greedy \w*
RECURSIVE SkipWord(_, _)
SkipWord(s, i) == IF i <= Len(s) /\ IsWord(Char(s, i)) THEN SkipWord(s, i + 1) ELSE i
\* position after a greedy \d*
RECURSIVE SkipDigits(_, _)
SkipDigits(s, i) == IF i <= Len(s) /\ IsDigit(Char(s, i)) THEN SkipDigits(s, i + 1) ELSE i

\* $ : at the end of the text, or just before a final newline
AtEnd(s, i) == \/ i = Len(s) + 1
               \/ i = Len(s) /\ Char(s, i) = "\n"
\* \b
WordAt(s, i) == i >= 1 /\ i <= Len(s) /\ IsWord(Char(s, i))
Boundary(s, i) == WordAt(s, i - 1) # WordAt(s, i)

\* least position in 1..Len(s)+1 satisfying P, 0 when there is none (re.search)
First(S) == IF S = {} THEN 0 ELSE CHOOSE i \in S : \A j \in S : i <= j


(***************************************************************************)
(* QueryValidator: configuration set by __init__                           *)
(***************************************************************************)
dangerous_keywords ==
    << "DROP", "DELETE", "TRUNCATE", "ALTER",
       "CREATE", "REPLACE", "INSERT", "UPDATE",
       "GRANT", "REVOKE", "EXEC", "EXECUTE",
       "SHUTDOWN", "RENAME", "ATTACH", "DETACH" >>

\* the source text of each pattern, as it is quoted in the error message
suspicious_patterns ==
    << ";\\s*DROP", "--\\s*$", "\\/\\*.*\\*\\/", "xp_\\w+", "sp_\\w+",
       "0x[0-9a-fA-F]+", "CHAR\\s*\\(", "INTO\\s+OUTFILE", "LOAD_FILE" >>

max_joins == 5
max_subqueries == 3
max_wildcards == 2

\* the result every _check_* method starts from
EmptyCheck == [passed |-> TRUE, errors |-> <<>>, warnings |-> <<>>, issues |-> <<>>]

(***************************************************************************)
(* _check_security and its helpers                                         *)
(***************************************************************************)
\* re.search(suspicious_patterns[n], query, re.IGNORECASE)
SuspiciousMatch(n, q) ==
    LET N == Len(q) IN
    CASE n = 1 -> \E i \in 1..N : Char(q, i) = ";" /\ AtCI(q, SkipSpace(q, i + 1), "DROP")
      [] n = 2 -> \E i \in 1..N : At(q, i, "--") /\ SkipSpace(q, i + 2) = N + 1
      [] n = 3 -> \E i \in 1..N : \E j \in (i + 2)..N :
                      /\ At(q, i, "/*")
                      /\ At(q, j, "*/")
                      /\ \A k \in (i + 2)..(j - 1) : Char(q, k) # "\n"
      [] n = 4 -> \E i \in 1..N : AtCI(q, i, "XP_") /\ WordAt(q, i + 3)
      [] n = 5 -> \E i \in 1..N : AtCI(q, i, "SP_") /\ WordAt(q, i + 3)
      [] n = 6 -> \E i \in 1..N : AtCI(q, i, "0X") /\ i + 2 <= N /\ Char(q, i + 2) \in HexSet
      [] n = 7 -> \E i \in 1..N : AtCI(q, i, "CHAR") /\ At(q, SkipSpace(q, i + 4), "(")
      [] n = 8 -> \E i \in 1..N : /\ AtCI(q, i, "INTO")
                                  /\ SkipSpace(q, i + 4) > i + 4
                                  /\ AtCI(q, SkipSpace(q, i + 4), "OUTFILE")
      [] n = 9 -> \E i \in 1..N : AtCI(q, i, "LOAD_FILE")

\* re.sub(quote + "[^" + quote + "]*" + quote, "", s)
RECURSIVE StripQuotedFrom(_, _, _)
StripQuotedFrom(s, quote, i) ==
    LET j == First({k \in i..Len(s) : Char(s, k) = quote /\ FindFrom(s, quote, k + 1) # 0})
    IN IF j = 0 THEN SubSeq(s, i, Len(s))
       ELSE SubSeq(s, i, j - 1) \o StripQuotedFrom(s, quote, FindFrom(s, quote, j + 1) + 1)
StripQuoted(s, quote) == StripQuotedFrom(s, quote, 1)

\* a variant that counts every semicolon, the final one too
MultipleStatementsAnySemicolon(q) ==
    Count(StripQuoted(StripQuoted(q, "'"), "\""), ";") > 0
_has_multiple_statements(q) ==
    LET query_cleaned == StripQuoted(StripQuoted(q, "'"), "\"")
    IN Count(RStripSemi(query_cleaned), ";") > 0

_has_unescaped_input(q) ==
    LET N == Len(q) IN
    \/ \E i \in 1..N : Char(q, i) = "+" /\ At(q, SkipSpace(q, i + 1), "@")
    \/ Contains(q, "||")
    \/ \E i \in 1..N : AtCI(q, i, "CONCAT") /\ At(q, SkipSpace(q, i + 6), "(")

_is_read_only(q) ==
    LET query_start == Upper(Strip(q))
    IN \/ StartsWith(query_start, "SELECT")
       \/ StartsWith(query_start, "WITH")
       \/ StartsWith(query_start, "EXPLAIN")

\* a variant that looks for the keywords in the query as written
DangerousKeywordsCaseSensitive(q) ==
    SelectSeq(dangerous_keywords, LAMBDA k : Contains(q, k))

\* the keywords the loop over dangerous_keywords finds in query_upper
DangerousKeywordsIn(q) ==
    LET query_upper == Upper(q)
    IN SelectSeq(dangerous_keywords, LAMBDA k : Contains(query_upper, k))

_check_security(q) ==
    LET kws   == DangerousKeywordsIn(q)
        pats  == SelectSeq([n \in 1..Len(suspicious_patterns) |-> n],
                           LAMBDA n : SuspiciousMatch(n, q))
        multi == _has_multiple_statements(q)
    IN [ passed   |-> kws = <<>> /\ pats = <<>> /\ ~multi,
         errors   |-> [i \in 1..Len(kws) |-> "Dangerous operation detected: " \o kws[i]]
                      \o [i \in 1..Len(pats) |->
                             "Suspicious pattern detected: " \o suspicious_patterns[pats[i]]]
                      \o (IF multi THEN <<"Multiple SQL statements detected">> ELSE <<>>),
         warnings |-> (IF _has_unescaped_input(q)
                       THEN <<"Potential unescaped user input detected">> ELSE <<>>)
                      \o (IF ~_is_read_only(q)
                          THEN <<"Query performs write operations">> ELSE <<>>),
         issues   |-> [i \in 1..Len(kws) |->
                          [type |-> "dangerous_keyword", keyword |-> kws[i],
                           severity |-> "critical"]]
                      \o [i \in 1..Len(pats) |->
                             [type |-> "suspicious_pattern",
                              pattern |-> suspicious_patterns[pats[i]],
                              severity |-> "high"]]
                      \o (IF multi
                          THEN <<[type |-> "multiple_statements", severity |-> "high"]>>
                          ELSE <<>>) ]

(***************************************************************************)
(* _check_syntax and its helpers.  conn is self.conn: [live |-> FALSE] for *)
(* None, else [live |-> TRUE, tables |-> the names sqlite_master lists];   *)
(* explain is the answer of the database to EXPLAIN QUERY PLAN <query>.    *)
(***************************************************************************)
\* the for loop over the characters lo..hi entered with `count`: the count it ends
\* with, negative once the loop has returned False
RECURSIVE ParenScan(_, _, _, _)
ParenScan(q, lo, hi, count) ==
    IF count < 0 \/ lo > hi THEN count
    ELSE IF lo = hi
    THEN (IF Char(q, lo) = "(" THEN count + 1
          ELSE IF Char(q, lo) = ")" THEN count - 1
          ELSE count)
    ELSE ParenScan(q, ((lo + hi) \div 2) + 1, hi, ParenScan(q, lo, (lo + hi) \div 2, count))
\* a variant that compares the totals only
ParenTotalsOnly(q) == Count(q, "(") = Count(q, ")")
_check_balanced_parentheses(q) == ParenScan(q, 1, Len(q), 0) = 0

_check_balanced_quotes(q) ==
    LET single_quotes == Count(q, "'") % 2 = 0
        double_quotes == Count(q, "\"") % 2 = 0
    IN single_quotes /\ double_quotes

_check_select_structure(q) ==
    LET head == Upper(Strip(q))
        query_upper == Upper(q)
    IN IF ~(StartsWith(head, "SELECT") \/ StartsWith(head, "WITH") \/ StartsWith(head, "EXPLAIN"))
       THEN TRUE
       ELSE Contains(query_upper, "SELECT") /\ Contains(query_upper, "FROM")

\* cursor.execute("EXPLAIN QUERY PLAN ..."): sqlite3.Error is caught
_validate_with_database(explain) ==
    IF explain.ok THEN [valid |-> TRUE, error |-> ""]
    ELSE [valid |-> FALSE, error |-> explain.error]

\* SELECT\s+\w+\s+\w+\s+FROM
MissingCommaMatch(q) ==
    \E i \in 1..Len(q) :
        LET p1 == SkipSpace(q, i + 6)
            p2 == SkipWord(q, p1)
            p3 == SkipSpace(q, p2)
            p4 == SkipWord(q, p3)
            p5 == SkipSpace(q, p4)
        IN /\ AtCI(q, i, "SELECT")
           /\ p1 > i + 6 /\ p2 > p1 /\ p3 > p2 /\ p4 > p3 /\ p5 > p4
           /\ AtCI(q, p5, "FROM")
\* JOIN\s+\w+\s+WHERE
JoinWhereMatch(q) ==
    \E i \in 1..Len(q) :
        LET p1 == SkipSpace(q, i + 4)
            p2 == SkipWord(q, p1)
            p3 == SkipSpace(q, p2)
        IN /\ AtCI(q, i, "JOIN")
           /\ p1 > i + 4 /\ p2 > p1 /\ p3 > p2
           /\ AtCI(q, p3, "WHERE")

_check_common_syntax_mistakes(q) ==
    (IF MissingCommaMatch(q) THEN <<"Possible missing comma between SELECT columns">> ELSE <<>>)
    \o (IF JoinWhereMatch(q) THEN <<"JOIN without ON clause">> ELSE <<>>)

_check_syntax(q, conn, explain) ==
    LET parens == ~_check_balanced_parentheses(q)
        quotes == ~_check_balanced_quotes(q)
        validation == IF conn.live THEN _validate_with_database(explain)
                      ELSE [valid |-> TRUE, error |-> ""]
    IN [ passed   |-> ~parens /\ ~quotes /\ validation.valid,
         errors   |-> (IF parens THEN <<"Unbalanced parentheses">> ELSE <<>>)
                      \o (IF quotes THEN <<"Unbalanced quotes">> ELSE <<>>)
                      \o (IF ~validation.valid
                          THEN <<"SQL syntax error: " \o validation.error>> ELSE <<>>),
         warnings |-> (IF ~_check_select_structure(q)
                       THEN <<"Unusual SELECT statement structure">> ELSE <<>>)
                      \o _check_common_syntax_mistakes(q),
         issues   |-> (IF parens
                       THEN <<[type |-> "unbalanced_parentheses", severity |-> "high"]>>
                       ELSE <<>>)
                      \o (IF quotes
                          THEN <<[type |-> "unbalanced_quotes", severity |-> "high"]>>
                          ELSE <<>>)
                      \o (IF ~validation.valid
                          THEN <<[type |-> "syntax_error", error |-> validation.error,
                                  severity |-> "critical"]>>
                          ELSE <<>>) ]

(***************************************************************************)
(* _check_structure and its helpers                                        *)
(***************************************************************************)
correct_order ==
    << "WITH", "SELECT", "FROM", "JOIN", "WHERE", "GROUP BY", "HAVING", "ORDER BY", "LIMIT" >>

\* re.search(r'\b' + clause + r'\b', query, re.IGNORECASE).start(), 0 when no match
ClausePos(q, clause) ==
    First({i \in 1..Len(q) : /\ AtCI(q, i, clause)
                             /\ Boundary(q, i)
                             /\ Boundary(q, i + Len(clause))})

\* the loop over correct_order: the first clause found before its predecessor
RECURSIVE ClauseScan(_, _, _)
ClauseScan(q, k, last_pos) ==
    IF k > Len(correct_order) THEN [valid |-> TRUE, message |-> ""]
    ELSE LET pos == ClausePos(q, correct_order[k])
         IN IF pos = 0 THEN ClauseScan(q, k + 1, last_pos)
            ELSE IF pos < last_pos
                 THEN [valid |-> FALSE,
                       message |-> correct_order[k] \o " appears in wrong position"]
                 ELSE ClauseScan(q, k + 1, pos)
_check_clause_order(q) == ClauseScan(q, 1, 0)

_check_group_by_validity(q) == Contains(Upper(q), "GROUP BY")

\* JOIN\s+\w+\s+(?:JOIN|WHERE|GROUP|ORDER|$)
JoinNoOnMatch(q) ==
    \E i \in 1..Len(q) :
        LET p1 == SkipSpace(q, i + 4)
            p2 == SkipWord(q, p1)
            p3 == SkipSpace(q, p2)
        IN /\ AtCI(q, i, "JOIN")
           /\ p1 > i + 4 /\ p2 > p1 /\ p3 > p2
           /\ \/ AtCI(q, p3, "JOIN") \/ AtCI(q, p3, "WHERE")
              \/ AtCI(q, p3, "GROUP") \/ AtCI(q, p3, "ORDER")
              \/ p3 = Len(q) + 1

\* the character class [^WHERE|GROUP|ORDER|JOIN] under re.IGNORECASE
OnClassExcluded == {"W", "H", "E", "R", "|", "G", "O", "U", "P", "D", "J", "I", "N"}
InOnClass(c) == UpperChar(c) \notin OnClassExcluded
RECURSIVE SkipOnClass(_, _)
SkipOnClass(s, i) ==
    IF i <= Len(s) /\ InOnClass(Char(s, i)) THEN SkipOnClass(s, i + 1) ELSE i
\* where group(1) of ON\s+([^WHERE|GROUP|ORDER|JOIN]+) starts when the match starts at i
\* (0: no match at i).  \s+ gives back one whitespace when nothing else fits the class.
OnGroupStart(q, i) ==
    LET p == SkipSpace(q, i + 2)
    IN IF ~AtCI(q, i, "ON") \/ p = i + 2 THEN 0
       ELSE IF p <= Len(q) /\ InOnClass(Char(q, p)) THEN p
       ELSE IF p - (i + 2) >= 2 THEN p - 1
       ELSE 0
\* on_clause.group(1) (never empty); "" when the search fails
OnConditions(q) ==
    LET i == First({j \in 1..Len(q) : OnGroupStart(q, j) # 0})
    IN IF i = 0 THEN ""
       ELSE SubSeq(q, OnGroupStart(q, i), SkipOnClass(q, OnGroupStart(q, i)) - 1)

_check_join_conditions(q) ==
    LET conditions == OnConditions(q)
    IN (IF JoinNoOnMatch(q) THEN <<"JOIN may be missing ON clause">> ELSE <<>>)
       \o (IF /\ Contains(Upper(q), "ON")
              /\ conditions # ""
              /\ ~Contains(Upper(conditions), "AND")
              /\ ~Contains(Upper(conditions), "OR")
              /\ Contains(conditions, "=")
              /\ Count(conditions, "=") > 1
           THEN <<"Multiple JOIN conditions may need AND/OR operators">>
           ELSE <<>>)

_check_structure(q) ==
    LET query_upper == Upper(q)
        clause_order == _check_clause_order(q)
        subquery_count == Count(query_upper, "SELECT") - 1
    IN [ passed   |-> TRUE,
         errors   |-> <<>>,
         warnings |-> (IF ~clause_order.valid
                       THEN <<"Incorrect clause order: " \o clause_order.message>>
                       ELSE <<>>)
                      \o (IF /\ Contains(query_upper, "GROUP BY")
                             /\ Contains(query_upper, "SELECT")
                             /\ ~_check_group_by_validity(q)
                          THEN <<"GROUP BY clause may have issues">> ELSE <<>>)
                      \o (IF Contains(query_upper, "JOIN")
                          THEN _check_join_conditions(q) ELSE <<>>)
                      \o (IF subquery_count > max_subqueries
                          THEN <<"Too many subqueries (" \o ToStr(subquery_count) \o ")">>
                          ELSE <<>>),
         issues   |-> <<>> ]

(***************************************************************************)
(* _check_performance and its helpers                                      *)
(***************************************************************************)
\* (?:WHERE|GROUP|ORDER|LIMIT|$) at position e
FromTerm(q, e) ==
    \/ AtCI(q, e, "WHERE") \/ AtCI(q, e, "GROUP")
    \/ AtCI(q, e, "ORDER") \/ AtCI(q, e, "LIMIT")
    \/ AtEnd(q, e)
\* [\w\s,]
InFromClass(c) == IsWord(c) \/ IsSpace(c) \/ c = ","
\* the lazy group ([\w\s,]+?) started at p: the least end e (exclusive) at which the
\* terminator matches; 0 when there is none
FromGroupEnd(q, p) ==
    First({e \in (p + 1)..(Len(q) + 1) :
               /\ \A k \in p..(e - 1) : InFromClass(Char(q, k))
               /\ FromTerm(q, e)})
\* FROM\s+([\w\s,]+?)(?:WHERE|GROUP|ORDER|LIMIT|$) matched from position i:
\* [s |-> start of group(1), e |-> its end], s = 0 when there is no match at i.
\* When nothing fits after the whole whitespace run, \s+ gives back its last
\* character to the group.
FromMatchAt(q, i) ==
    LET p == SkipSpace(q, i + 4)
    IN IF ~AtCI(q, i, "FROM") \/ p = i + 4 THEN [s |-> 0, e |-> 0]
       ELSE IF FromGroupEnd(q, p) # 0 THEN [s |-> p, e |-> FromGroupEnd(q, p)]
       ELSE IF p - (i + 4) >= 2 /\ FromTerm(q, p) THEN [s |-> p - 1, e |-> p]
       ELSE [s |-> 0, e |-> 0]
\* from_match.group(1) of re.search; "" when the search fails (the group is never empty)
FromGroup(q) ==
    LET i == First({j \in 1..Len(q) : FromMatchAt(q, j).s # 0})
    IN IF i = 0 THEN "" ELSE SubSeq(q, FromMatchAt(q, i).s, FromMatchAt(q, i).e - 1)

_has_cartesian_product_risk(q) ==
    LET g == FromGroup(q)
    IN /\ g # ""
       /\ Count(g, ",") + 1 > 1
       /\ ~Contains(Upper(q), "JOIN")
       /\ ~Contains(Upper(q), "WHERE")

where_functions == << "DATE", "YEAR", "MONTH", "DAY", "UPPER", "LOWER", "TRIM", "LENGTH" >>
NoNewline(q, a, b) == \A k \in a..b : Char(q, k) # "\n"
\* WHERE.*\b(DATE|YEAR|MONTH|DAY|UPPER|LOWER|TRIM|LENGTH)\s*\(
WhereFunctionMatch(q) ==
    \E i \in {k \in 1..Len(q) : AtCI(q, k, "WHERE")} :
        \E j \in {k \in (i + 5)..Len(q) : Boundary(q, k) /\ WordAt(q, k)} :
            /\ NoNewline(q, i + 5, j - 1)
            /\ \E n \in 1..Len(where_functions) :
                   /\ AtCI(q, j, where_functions[n])
                   /\ At(q, SkipSpace(q, j + Len(where_functions[n])), "(")
\* WHERE.*\b\w+\s*\([^)]*\w+\.[^)]*\)
WhereCallOnColumnMatch(q) ==
    \E i \in {k \in 1..Len(q) : AtCI(q, k, "WHERE")} :
        \E j \in {k \in (i + 5)..Len(q) : Boundary(q, k) /\ WordAt(q, k)} :
            /\ NoNewline(q, i + 5, j - 1)
            /\ \E open \in {SkipSpace(q, SkipWord(q, j))} :
                   /\ At(q, open, "(")
                   /\ \E close \in {FindFrom(q, ")", open + 1)} :
                          /\ close # 0
                          /\ \E d \in (open + 2)..(close - 1) :
                                 Char(q, d) = "." /\ WordAt(q, d - 1)

_has_functions_in_where(q) == WhereFunctionMatch(q) \/ WhereCallOnColumnMatch(q)

\* LIKE\s+['\"]%
LikeLeadingWildcardMatch(q) ==
    \E i \in 1..Len(q) :
        LET p == SkipSpace(q, i + 4)
        IN /\ AtCI(q, i, "LIKE")
           /\ p > i + 4
           /\ (At(q, p, "'%") \/ At(q, p, "\"%"))

_check_performance(q) ==
    LET query_upper == Upper(q)
        wildcard_count == Count(q, "*")
        join_count == Count(query_upper, "JOIN")
        or_count == Count(query_upper, " OR ")
        cartesian == _has_cartesian_product_risk(q)
    IN [ passed   |-> TRUE,
         errors   |-> <<>>,
         warnings |-> (IF wildcard_count > max_wildcards
                       THEN <<"Too many wildcards (" \o ToStr(wildcard_count) \o ")">>
                       ELSE <<>>)
                      \o (IF ~Contains(query_upper, "LIMIT") /\ ~Contains(query_upper, "COUNT(")
                          THEN <<"No LIMIT clause found">> ELSE <<>>)
                      \o (IF join_count > max_joins
                          THEN <<"Too many JOINs (" \o ToStr(join_count) \o ")">> ELSE <<>>)
                      \o (IF cartesian
                          THEN <<"Potential cartesian product detected">> ELSE <<>>)
                      \o (IF _has_functions_in_where(q)
                          THEN <<"Functions in WHERE clause may prevent index usage">>
                          ELSE <<>>)
                      \o (IF or_count > 5
                          THEN <<"Many OR conditions (" \o ToStr(or_count)
                                 \o ") may impact performance">>
                          ELSE <<>>)
                      \o (IF LikeLeadingWildcardMatch(q)
                          THEN <<"LIKE with leading wildcard prevents index usage">>
                          ELSE <<>>),
         issues   |-> (IF wildcard_count > max_wildcards
                       THEN <<[type |-> "excessive_wildcards", count |-> wildcard_count,
                               severity |-> "medium"]>>
                       ELSE <<>>)
                      \o (IF join_count > max_joins
                          THEN <<[type |-> "excessive_joins", count |-> join_count,
                                  severity |-> "medium"]>>
                          ELSE <<>>)
                      \o (IF cartesian
                          THEN <<[type |-> "cartesian_product", severity |-> "high"]>>
                          ELSE <<>>) ]

(***************************************************************************)
(* The context argument.  Python's optional dict is the record             *)
(*   [none |-> context is None, keys |-> the keys present,                 *)
(*    default_limit, indexes, schema |-> the values of the keys present].  *)
(* context['schema'] is a sequence of [name, info] entries (a dict in      *)
(* insertion order); info.kind is "dict" for the documented shape          *)
(* {columns: [...], important_columns: [...]} (info.keys tells which are   *)
(* given) and "list" for a bare list of column names.                      *)
(* context['indexes'] is [kind |-> "dict", entries |-> <<[name, cols]>>]   *)
(* or, with kind "list", a bare list of index names.                       *)
(***************************************************************************)
Truthy(ctx) == ~ctx.none /\ ctx.keys # {}
HasKey(ctx, k) == ~ctx.none /\ k \in ctx.keys
SchemaHas(schema, table) == \E n \in 1..Len(schema) : schema[n].name = table
SchemaInfo(schema, table) ==
    schema[CHOOSE n \in 1..Len(schema) : schema[n].name = table].info
\* x in list
InSeq(x, seq) == \E n \in 1..Len(seq) : seq[n] = x
\* the elements of a list as a set
Range(seq) == {seq[n] : n \in 1..Len(seq)}

NoIndexes == [kind |-> "dict", entries |-> <<>>]
DictInfo(cols) == [kind |-> "dict", keys |-> {"columns"}, columns |-> cols,
                   important_columns |-> <<>>]
ListInfo(cols) == [kind |-> "list", keys |-> {}, columns |-> cols, important_columns |-> <<>>]

\* context = None
CtxNone == [none |-> TRUE, keys |-> {}, default_limit |-> 0,
            indexes |-> NoIndexes, schema |-> <<>>]
\* context = {}
CtxEmpty == [CtxNone EXCEPT !.none = FALSE]
\* context = {'default_limit': 50}
CtxLimit == [CtxEmpty EXCEPT !.keys = {"default_limit"}, !.default_limit = 50]
\* context = {'default_limit': 100, 'indexes': {'idx_t_x': ['x']}, 'table_sizes': {}},
\* the shape _prepare_optimization_context builds
CtxAgent == [CtxEmpty EXCEPT !.keys = {"default_limit", "indexes", "table_sizes"},
                             !.default_limit = 100,
                             !.indexes = [kind |-> "dict",
                                          entries |-> <<[name |-> "idx_t_x", cols |-> <<"x">>]>>]]
\* context = {'schema': {'t': {'columns': ['a', 'x']}, 'products': {'columns': ['id', 'updated_at']}},
\*            'indexes': {'idx_a': ['a'], 'idx_y': ['y']}}
CtxSchema == [CtxEmpty EXCEPT !.keys = {"schema", "indexes"},
                              !.schema = << [name |-> "t", info |-> DictInfo(<<"a", "x">>)],
                                            [name |-> "products",
                                             info |-> DictInfo(<<"id", "updated_at">>)] >>,
                              !.indexes = [kind |-> "dict",
                                           entries |-> << [name |-> "idx_a", cols |-> <<"a">>],
                                                          [name |-> "idx_y", cols |-> <<"y">>] >>]]
\* context = {'default_limit': 10, 'schema': {'t': ['a', 'x']}, 'indexes': ['idx_a']}:
\* values of the wrong shape
CtxBad == [CtxEmpty EXCEPT !.keys = {"default_limit", "schema", "indexes"},
                           !.default_limit = 10,
                           !.schema = << [name |-> "t", info |-> ListInfo(<<"a", "x">>)] >>,
                           !.indexes = [kind |-> "list", entries |-> <<>>]]

\* self.conn = None
ConnNone == [live |-> FALSE, closed |-> FALSE, tables |-> <<>>]
\* an open connection to a database with the tables t, u and Products
ConnLive == [live |-> TRUE, closed |-> FALSE, tables |-> <<"t", "u", "Products">>]
\* a connection that was closed by its owner
ConnClosed == [live |-> TRUE, closed |-> TRUE, tables |-> <<>>]

(***************************************************************************)
(* _check_schema and its helpers                                           *)
(***************************************************************************)
\* re.findall(kw + r'\s+(\w+)', query, re.IGNORECASE) scanning from position i
RECURSIVE WordsAfter(_, _, _)
WordsAfter(q, kw, i) ==
    LET j == First({k \in i..Len(q) :
                        /\ AtCI(q, k, kw)
                        /\ SkipSpace(q, k + Len(kw)) > k + Len(kw)
                        /\ WordAt(q, SkipSpace(q, k + Len(kw)))})
        p == SkipSpace(q, j + Len(kw))
    IN IF j = 0 THEN <<>>
       ELSE <<SubSeq(q, p, SkipWord(q, p) - 1)>> \o WordsAfter(q, kw, SkipWord(q, p))

\* a variant that collects the names after FROM only
TableNamesAfterFromOnly(q) == Range(WordsAfter(q, "FROM", 1))
\* list(set(tables)): the distinct names; their order in the list is that of set iteration
_extract_table_names(q) == Range(WordsAfter(q, "FROM", 1) \o WordsAfter(q, "JOIN", 1))

\* re.findall(r'(\w+)\.(\w+)', query) scanning from position i
RECURSIVE ColumnRefsFrom(_, _)
ColumnRefsFrom(q, i) ==
    LET j == First({k \in i..Len(q) :
                        /\ WordAt(q, k)
                        /\ At(q, SkipWord(q, k), ".")
                        /\ WordAt(q, SkipWord(q, k) + 1)})
        d == SkipWord(q, j)
    IN IF j = 0 THEN <<>>
       ELSE <<[table |-> SubSeq(q, j, d - 1), column |-> SubSeq(q, d + 1, SkipWord(q, d + 1) - 1)]>>
            \o ColumnRefsFrom(q, SkipWord(q, d + 1))
_extract_column_references(q) == ColumnRefsFrom(q, 1)

\* order: the tables of the query in the order the set is iterated
_check_schema(q, ctx, conn, order) ==
    LET missing == IF conn.live
                   THEN SelectSeq(order, LAMBDA t :
                            ~(\E n \in 1..Len(conn.tables) : Lower(conn.tables[n]) = Lower(t)))
                   ELSE <<>>
        columns == _extract_column_references(q)
        checked == IF Truthy(ctx) /\ HasKey(ctx, "schema")
                   THEN SelectSeq(columns, LAMBDA r : SchemaHas(ctx.schema, r.table))
                   ELSE <<>>
        unknown == SelectSeq(checked, LAMBDA r :
                       LET info == SchemaInfo(ctx.schema, r.table)
                       IN ~("columns" \in info.keys /\ InSeq(r.column, info.columns)))
    IN IF ~conn.live /\ ~Truthy(ctx)
       THEN [raised |-> FALSE,
             result |-> [EmptyCheck EXCEPT !.warnings =
                            <<"Schema validation skipped (no connection or context)">>]]
       \* sqlite3.ProgrammingError of a closed connection is not caught in
       \* _get_existing_tables; a list has no .get
       ELSE IF \/ conn.live /\ conn.closed
               \/ \E n \in 1..Len(checked) : SchemaInfo(ctx.schema, checked[n].table).kind # "dict"
       THEN [raised |-> TRUE, result |-> EmptyCheck]
       ELSE [raised |-> FALSE,
             result |->
               [ passed   |-> missing = <<>>,
                 errors   |-> [n \in 1..Len(missing) |->
                                  "Table '" \o missing[n] \o "' does not exist"],
                 warnings |-> [n \in 1..Len(unknown) |->
                                  "Column '" \o unknown[n].column
                                  \o "' may not exist in table '" \o unknown[n].table \o "'"],
                 issues   |-> [n \in 1..Len(missing) |->
                                  [type |-> "missing_table", table |-> missing[n],
                                   severity |-> "critical"]] ]]

(***************************************************************************)
(* _check_logic and its helpers                                            *)
(***************************************************************************)
\* WHERE\s+1\s*=\s*<digit>
WhereOneEquals(q, digit) ==
    \E i \in 1..Len(q) :
        LET p1 == SkipSpace(q, i + 5)
            p2 == SkipSpace(q, p1 + 1)
            p3 == SkipSpace(q, p2 + 1)
        IN /\ AtCI(q, i, "WHERE")
           /\ p1 > i + 5
           /\ At(q, p1, "1") /\ At(q, p2, "=") /\ At(q, p3, digit)
\* =\s*NULL
EqualsNullMatch(q) ==
    \E i \in 1..Len(q) : Char(q, i) = "=" /\ AtCI(q, SkipSpace(q, i + 1), "NULL")

\* (?:GROUP|ORDER|LIMIT|$) at position e
WhereTerm(q, e) ==
    \/ AtCI(q, e, "GROUP") \/ AtCI(q, e, "ORDER") \/ AtCI(q, e, "LIMIT") \/ AtEnd(q, e)
\* the lazy group (.*?) started at p: its least end (exclusive), 0 when there is none
WhereGroupEnd(q, p) ==
    First({e \in p..(Len(q) + 1) : NoNewline(q, p, e - 1) /\ WhereTerm(q, e)})
\* WHERE\s+(.*?)(?:GROUP|ORDER|LIMIT|$): [found, conditions |-> group(1)]
WhereConditions(q) ==
    LET i == First({j \in 1..Len(q) :
                        /\ AtCI(q, j, "WHERE")
                        /\ SkipSpace(q, j + 5) > j + 5
                        /\ WhereGroupEnd(q, SkipSpace(q, j + 5)) # 0})
        p == SkipSpace(q, i + 5)
    IN IF i = 0 THEN [found |-> FALSE, conditions |-> ""]
       ELSE [found |-> TRUE, conditions |-> SubSeq(q, p, WhereGroupEnd(q, p) - 1)]

\* \s+AND\s+|\s+OR\s+ matched from position k: the position after the match, 0 for none
SeparatorEnd(s, k) ==
    LET p == SkipSpace(s, k)
    IN IF p = k THEN 0
       ELSE IF AtCI(s, p, "AND") /\ SkipSpace(s, p + 3) > p + 3 THEN SkipSpace(s, p + 3)
       ELSE IF AtCI(s, p, "OR") /\ SkipSpace(s, p + 2) > p + 2 THEN SkipSpace(s, p + 2)
       ELSE 0
\* re.split(r'\s+AND\s+|\s+OR\s+', s, flags=re.IGNORECASE) of s[i:]
RECURSIVE SplitConditions(_, _)
SplitConditions(s, i) ==
    LET k == First({j \in i..Len(s) : SeparatorEnd(s, j) # 0})
    IN IF k = 0 THEN <<SubSeq(s, i, Len(s))>>
       ELSE <<SubSeq(s, i, k - 1)>> \o SplitConditions(s, SeparatorEnd(s, k))

_find_duplicate_conditions(q) ==
    LET w == WhereConditions(q)
        parts == SplitConditions(w.conditions, 1)
    IN w.found /\ Len(parts) # Cardinality(Range(parts))

\* position after a greedy [^\s]*
RECURSIVE SkipNonSpace(_, _)
SkipNonSpace(s, i) ==
    IF i <= Len(s) /\ ~IsSpace(Char(s, i)) THEN SkipNonSpace(s, i + 1) ELSE i
\* \s*=\s* read from position a: the position of the value that follows, 0 when
\* there is no '=' or no value
ValueStart(q, a) ==
    LET eq == SkipSpace(q, a)
        b == SkipSpace(q, eq + 1)
    IN IF At(q, eq, "=") /\ b <= Len(q) THEN b ELSE 0
Max(S) == CHOOSE x \in S : \A y \in S : y <= x
\* (\w+)\s*=\s*([^\s]+).*AND.*\1\s*=\s*([^\s]+) matched from position i.
\* group(1) is the whole word run at i (a shorter one is followed by a word
\* character, not by '='); the back-reference is compared ignoring case.
\* The greedy quantifiers make the first match found the one with the longest
\* group(2), then the last AND, then the last repetition of group(1).
ContraMatchAt(q, i) ==
    LET a == SkipWord(q, i)
        name == Upper(SubSeq(q, i, a - 1))
        b == ValueStart(q, a)
        Reps(d) == {e \in (d + 3)..Len(q) :
                        /\ AtCI(q, e, name)
                        /\ ValueStart(q, e + Len(name)) # 0
                        /\ NoNewline(q, d + 3, e - 1)}
        Ands(c) == {d \in c..Len(q) :
                        /\ AtCI(q, d, "AND") /\ NoNewline(q, c, d - 1) /\ Reps(d) # {}}
        Ends == {c \in (b + 1)..SkipNonSpace(q, b) : Ands(c) # {}}
    IN IF ~WordAt(q, i) \/ b = 0 \/ Ends = {}
       THEN [found |-> FALSE, value1 |-> "", value2 |-> ""]
       ELSE LET c == Max(Ends)
                d == Max(Ands(c))
                e == Max(Reps(d))
                v == ValueStart(q, e + Len(name))
            IN [found |-> TRUE,
                value1 |-> SubSeq(q, b, c - 1),
                value2 |-> SubSeq(q, v, SkipNonSpace(q, v) - 1)]

_has_contradictory_conditions(q) ==
    LET i == First({j \in 1..Len(q) : ContraMatchAt(q, j).found})
    IN i # 0 /\ ContraMatchAt(q, i).value1 # ContraMatchAt(q, i).value2

_check_logic(q) ==
    LET contradictory == _has_contradictory_conditions(q)
    IN [ passed   |-> ~contradictory,
         errors   |-> IF contradictory THEN <<"Contradictory conditions detected">> ELSE <<>>,
         warnings |-> (IF WhereOneEquals(q, "1")
                       THEN <<"Always-true condition detected">> ELSE <<>>)
                      \o (IF WhereOneEquals(q, "0")
                          THEN <<"Always-false condition detected">> ELSE <<>>)
                      \o (IF EqualsNullMatch(q)
                          THEN <<"Use IS NULL instead of = NULL">> ELSE <<>>)
                      \o (IF _find_duplicate_conditions(q)
                          THEN <<"Duplicate conditions found">> ELSE <<>>),
         issues   |-> <<>> ]

(***************************************************************************)
(* _check_best_practices: only its ORDER BY finding is a warning, the      *)
(* others are suggestions                                                  *)
(***************************************************************************)
\* ORDER\s+BY\s+\d+
OrderByPositionMatch(q) ==
    \E i \in 1..Len(q) :
        LET p1 == SkipSpace(q, i + 5)
            p2 == SkipSpace(q, p1 + 2)
        IN /\ AtCI(q, i, "ORDER")
           /\ p1 > i + 5
           /\ AtCI(q, p1, "BY")
           /\ p2 > p1 + 2
           /\ p2 <= Len(q) /\ IsDigit(Char(q, p2))

_check_best_practices(q) ==
    [ passed   |-> TRUE,
      errors   |-> <<>>,
      warnings |-> IF Contains(Upper(q), "ORDER BY") /\ OrderByPositionMatch(q)
                   THEN <<"Ordering by column position is fragile">> ELSE <<>>,
      issues   |-> <<>> ]

(***************************************************************************)
(* validate(): risk level, summary and the order of the checks             *)
(***************************************************************************)
\* a variant that looks at the number of warnings first
RiskLevelWarningsFirst(result) ==
    IF Len(result.warnings) > 3 THEN "medium"
    ELSE IF result.security_issues # <<>> THEN "high"
    ELSE IF result.errors # <<>> THEN "high"
    ELSE "low"

\* a variant that looks at the security issues only
RiskLevelSecurityOnly(result) ==
    IF result.security_issues # <<>> THEN "high"
    ELSE IF Len(result.warnings) > 3 THEN "medium"
    ELSE "low"

_calculate_risk_level(result) ==
    IF result.security_issues # <<>> THEN "high"
    ELSE IF result.errors # <<>> THEN "high"
    ELSE IF Len(result.warnings) > 3 THEN "medium"
    ELSE "low"

_generate_summary(result) ==
    IF result.is_valid
    THEN IF result.warnings = <<>>
         THEN "Query validated successfully with no issues"
         ELSE "Query validated with " \o ToStr(Len(result.warnings)) \o " warnings"
    ELSE "Query validation failed: " \o ToStr(Len(result.errors)) \o " errors, "
         \o ToStr(Len(result.warnings)) \o " warnings"

checks == << "security", "syntax", "structure", "performance", "schema", "logic",
             "best_practices" >>

\* check_func(sql_query, context) for the check called name; explain and order are
\* what the database and the set iteration answer during the call
RunCheckFunc(name, q, ctx, conn, explain, order) ==
    CASE name = "security"       -> [raised |-> FALSE, result |-> _check_security(q)]
      [] name = "syntax"         -> [raised |-> FALSE, result |-> _check_syntax(q, conn, explain)]
      [] name = "structure"      -> [raised |-> FALSE, result |-> _check_structure(q)]
      [] name = "performance"    -> [raised |-> FALSE, result |-> _check_performance(q)]
      [] name = "schema"         -> _check_schema(q, ctx, conn, order)
      [] name = "logic"          -> [raised |-> FALSE, result |-> _check_logic(q)]
      [] name = "best_practices" -> [raised |-> FALSE, result |-> _check_best_practices(q)]

\* a variant in which every check overwrites is_valid with its own verdict
MergeCheckOverwriting(result, name, cr) ==
    [result EXCEPT
        !.is_valid = cr.passed,
        !.errors = @ \o cr.errors,
        !.warnings = @ \o cr.warnings,
        !.security_issues = IF name = "security" THEN cr.issues ELSE @,
        !.syntax_issues = IF name = "syntax" THEN cr.issues ELSE @,
        !.performance_issues = IF name = "performance" THEN cr.issues ELSE @]

\* the body of the try block: merge one check's result into the aggregate
MergeCheck(result, name, cr) ==
    [result EXCEPT
        !.is_valid = IF ~cr.passed THEN FALSE ELSE @,
        !.errors = @ \o cr.errors,
        !.warnings = @ \o cr.warnings,
        !.security_issues = IF name = "security" THEN cr.issues ELSE @,
        !.syntax_issues = IF name = "syntax" THEN cr.issues ELSE @,
        !.performance_issues = IF name = "performance" THEN cr.issues ELSE @]
\* the counter a check with issues increments
IssueCounter(name) ==
    CASE name = "security" -> "security_violations"
      [] name = "syntax" -> "syntax_errors"
      [] name = "performance" -> "performance_warnings"
      [] OTHER -> ""
MergeStats(stats, name, cr) ==
    IF IssueCounter(name) # "" /\ cr.issues # <<>>
    THEN [stats EXCEPT ![IssueCounter(name)] = @ + 1]
    ELSE stats
\* a variant of the except block that also fails the validation
CheckFailedInvalidating(result, name) ==
    [result EXCEPT !.is_valid = FALSE,
                   !.warnings = Append(@, "Could not complete " \o name \o " check")]
\* the except block
CheckFailed(result, name) ==
    [result EXCEPT !.warnings = Append(@, "Could not complete " \o name \o " check")]

ZeroStats == [queries_validated |-> 0, queries_passed |-> 0, queries_failed |-> 0,
              security_violations |-> 0, syntax_errors |-> 0, performance_warnings |-> 0]
NewResult(q) == [is_valid |-> TRUE, query |-> q, errors |-> <<>>, warnings |-> <<>>,
                 security_issues |-> <<>>, syntax_issues |-> <<>>,
                 performance_issues |-> <<>>, risk_level |-> "low", summary |-> ""]

(***************************************************************************)
(* QueryOptimizer: the rules.  A rule call returns                         *)
(* [raised |-> an exception left the rule, out |-> the text it returned].  *)
(***************************************************************************)
db_type == "sqlite"

Returned(text) == [raised |-> FALSE, out |-> text]
Raised == [raised |-> TRUE, out |-> ""]

\* sep.join(items)
RECURSIVE Join(_, _)
Join(sep, items) ==
    IF items = <<>> THEN ""
    ELSE IF Len(items) = 1 THEN items[1]
    ELSE items[1] \o sep \o Join(sep, Tail(items))

\* the pieces f[lo], ..., f[hi] joined into one text
RECURSIVE ConcatAll(_, _, _)
ConcatAll(f, lo, hi) ==
    IF lo > hi THEN ""
    ELSE IF lo = hi THEN f[lo]
    ELSE LET mid == (lo + hi) \div 2
         IN ConcatAll(f, lo, mid) \o ConcatAll(f, mid + 1, hi)

\* re.sub(r'\s+', ' ', s): the first character of a whitespace run becomes a space,
\* the others disappear
CollapseSpace(s) ==
    ConcatAll([i \in 1..Len(s) |->
                  IF ~IsSpace(Char(s, i)) THEN Char(s, i)
                  ELSE IF i > 1 /\ IsSpace(Char(s, i - 1)) THEN "" ELSE " "],
              1, Len(s))

\* ([^\s])<op>([^\s]) matches at position i
OperatorAt(s, op, i) ==
    /\ i <= Len(s) /\ ~IsSpace(Char(s, i))
    /\ At(s, i + 1, op)
    /\ i + 1 + Len(op) <= Len(s) /\ ~IsSpace(Char(s, i + 1 + Len(op)))
\* the starts of the non-overlapping matches re.sub finds in s[i:], left to right
RECURSIVE OperatorMatches(_, _, _)
OperatorMatches(s, op, i) ==
    LET j == First({k \in i..Len(s) : OperatorAt(s, op, k)})
    IN IF j = 0 THEN {} ELSE {j} \cup OperatorMatches(s, op, j + Len(op) + 2)
\* re.sub(rf'([^\s]){re.escape(op)}([^\s])', rf'\1 {op} \2', s): a space goes in
\* before and after the operator of every match
SpaceOperator(s, op) ==
    LET M == OperatorMatches(s, op, 1)
    IN ConcatAll([i \in 1..Len(s) |->
                     (IF (i - 1) \in M THEN " " ELSE "")
                     \o Char(s, i)
                     \o (IF (i - Len(op)) \in M THEN " " ELSE "")],
                 1, Len(s))

operators == << "=", "!=", "<>", "<=", ">=", "<", ">" >>
\* the for loop over operators, from the k-th one on
RECURSIVE SpaceOperators(_, _)
SpaceOperators(s, k) ==
    IF k > Len(operators) THEN s
    ELSE SpaceOperators(SpaceOperator(s, operators[k]), k + 1)

_normalize_whitespace(q, ctx) ==
    Returned(SpaceOperators(Strip(CollapseSpace(q)), 1))

\* a variant that does not look for a LIMIT already in the query
AddLimitWithoutLimitTest(q, ctx) ==
    LET query_upper == Upper(q)
        default_limit == IF Truthy(ctx) /\ HasKey(ctx, "default_limit")
                         THEN ctx.default_limit ELSE 100
    IN IF \/ Contains(query_upper, "COUNT(")
          \/ StartsWith(query_upper, "INSERT")
          \/ StartsWith(query_upper, "UPDATE")
          \/ StartsWith(query_upper, "DELETE")
       THEN Returned(q)
       ELSE IF StartsWith(query_upper, "SELECT")
       THEN Returned(RStripSemi(q) \o " LIMIT " \o ToStr(default_limit))
       ELSE Returned(q)

_add_limit_if_missing(q, ctx) ==
    LET query_upper == Upper(q)
        default_limit == IF Truthy(ctx) /\ HasKey(ctx, "default_limit")
                         THEN ctx.default_limit ELSE 100
    IN IF \/ Contains(query_upper, "LIMIT")
          \/ Contains(query_upper, "COUNT(")
          \/ StartsWith(query_upper, "INSERT")
          \/ StartsWith(query_upper, "UPDATE")
          \/ StartsWith(query_upper, "DELETE")
       THEN Returned(q)
       ELSE IF StartsWith(query_upper, "SELECT")
       THEN Returned(RStripSemi(q) \o " LIMIT " \o ToStr(default_limit))
       ELSE Returned(q)

\* SELECT\s+\*\s+FROM\s+(\w+) matched from position i: the position after the match,
\* 0 for none
SelectStarEnd(q, i) ==
    LET p1 == SkipSpace(q, i + 6)
        p2 == SkipSpace(q, p1 + 1)
        p3 == SkipSpace(q, p2 + 4)
    IN IF /\ AtCI(q, i, "SELECT") /\ p1 > i + 6
          /\ At(q, p1, "*") /\ p2 > p1 + 1
          /\ AtCI(q, p2, "FROM") /\ p3 > p2 + 4
          /\ WordAt(q, p3)
       THEN SkipWord(q, p3) ELSE 0
\* re.finditer over q[i:]: [text |-> group(0), table |-> group(1)] of every match
RECURSIVE SelectStarMatches(_, _)
SelectStarMatches(q, i) ==
    LET j == First({k \in i..Len(q) : SelectStarEnd(q, k) # 0})
        e == SelectStarEnd(q, j)
    IN IF j = 0 THEN <<>>
       ELSE <<[text |-> SubSeq(q, j, e - 1),
               table |-> SubSeq(q, SkipSpace(q, SkipSpace(q, SkipSpace(q, j + 6) + 1) + 4), e - 1)]>>
            \o SelectStarMatches(q, e)
\* table_info.get('important_columns', table_info.get('columns', []))
ImportantColumns(info) ==
    IF "important_columns" \in info.keys THEN info.important_columns
    ELSE IF "columns" \in info.keys THEN info.columns
    ELSE <<>>
\* the for loop over the matches, from the n-th one on; each replace acts on the
\* text the previous ones produced
RECURSIVE ExpandWildcards(_, _, _, _)
ExpandWildcards(q, matches, n, schema) ==
    IF n > Len(matches) THEN q
    ELSE LET m == matches[n]
             columns == IF SchemaHas(schema, m.table)
                        THEN ImportantColumns(SchemaInfo(schema, m.table)) ELSE <<>>
         IN IF columns # <<>> /\ Len(columns) < 20
            THEN ExpandWildcards(
                     Replace(q, m.text, "SELECT " \o Join(", ", columns) \o " FROM " \o m.table),
                     matches, n + 1, schema)
            ELSE ExpandWildcards(q, matches, n + 1, schema)

_optimize_wildcards(q, ctx) ==
    LET matches == SelectStarMatches(q, 1)
    IN IF ~Truthy(ctx) \/ ~HasKey(ctx, "schema") THEN Returned(q)
       \* a list has no .get
       ELSE IF \E n \in 1..Len(matches) :
                   /\ SchemaHas(ctx.schema, matches[n].table)
                   /\ SchemaInfo(ctx.schema, matches[n].table).kind # "dict"
       THEN Raised
       ELSE Returned(ExpandWildcards(q, matches, 1, ctx.schema))

\* (\w+)\s+RIGHT\s+JOIN\s+(\w+) matched from position i:
\* [e |-> position after the match (0 for none), table1, table2]
RightJoinAt(q, i) ==
    LET a == SkipWord(q, i)
        p1 == SkipSpace(q, a)
        p2 == SkipSpace(q, p1 + 5)
        p3 == SkipSpace(q, p2 + 4)
    IN IF /\ WordAt(q, i) /\ p1 > a
          /\ AtCI(q, p1, "RIGHT") /\ p2 > p1 + 5
          /\ AtCI(q, p2, "JOIN") /\ p3 > p2 + 4
          /\ WordAt(q, p3)
       THEN [e |-> SkipWord(q, p3), table1 |-> SubSeq(q, i, a - 1),
             table2 |-> SubSeq(q, p3, SkipWord(q, p3) - 1)]
       ELSE [e |-> 0, table1 |-> "", table2 |-> ""]
\* re.sub(pattern, swap_tables, q) of q[i:]
RECURSIVE SwapRightJoins(_, _)
SwapRightJoins(q, i) ==
    LET j == First({k \in i..Len(q) : RightJoinAt(q, k).e # 0})
        m == RightJoinAt(q, j)
    IN IF j = 0 THEN SubSeq(q, i, Len(q))
       ELSE SubSeq(q, i, j - 1) \o m.table2 \o " LEFT JOIN " \o m.table1
            \o SwapRightJoins(q, m.e)
_convert_right_to_left_join(q) == SwapRightJoins(q, 1)

\* ON\s+(\w+)\.(\w+)\s*=\s*(\w+)\.(\w+) matched from position i:
\* [e |-> position after the match (0 for none), col1 |-> group(2), col2 |-> group(4)]
OnEqualityAt(q, i) ==
    LET p1 == SkipSpace(q, i + 2)
        d1 == SkipWord(q, p1)
        c1 == SkipWord(q, d1 + 1)
        eq == SkipSpace(q, c1)
        p2 == SkipSpace(q, eq + 1)
        d2 == SkipWord(q, p2)
        c2 == SkipWord(q, d2 + 1)
    IN IF /\ AtCI(q, i, "ON") /\ p1 > i + 2
          /\ d1 > p1 /\ At(q, d1, ".") /\ c1 > d1 + 1
          /\ At(q, eq, "=")
          /\ d2 > p2 /\ At(q, d2, ".") /\ c2 > d2 + 1
       THEN [e |-> c2, col1 |-> SubSeq(q, d1 + 1, c1 - 1), col2 |-> SubSeq(q, d2 + 1, c2 - 1)]
       ELSE [e |-> 0, col1 |-> "", col2 |-> ""]
RECURSIVE OnEqualities(_, _)
OnEqualities(q, i) ==
    LET j == First({k \in i..Len(q) : OnEqualityAt(q, k).e # 0})
    IN IF j = 0 THEN <<>>
       ELSE <<OnEqualityAt(q, j)>> \o OnEqualities(q, OnEqualityAt(q, j).e)

\* returns a rule outcome: indexes.values() fails on a list
_optimize_join_conditions(q, indexes) ==
    LET matches == OnEqualities(q, 1)
        unindexed == SelectSeq(matches, LAMBDA m :
                         ~(\E n \in 1..Len(indexes.entries) :
                              \/ InSeq(m.col1, indexes.entries[n].cols)
                              \/ InSeq(m.col2, indexes.entries[n].cols)))
        suggestions == [n \in 1..Len(unindexed) |->
                           "Consider indexing " \o unindexed[n].col1 \o " and "
                           \o unindexed[n].col2]
    IN IF matches # <<>> /\ indexes.kind # "dict" THEN Raised
       ELSE IF suggestions # <<>>
       THEN Returned("-- Optimization suggestions: " \o Join("; ", suggestions) \o "\n" \o q)
       ELSE Returned(q)

_reorder_joins_by_size(q) == q

_optimize_joins(q, ctx) ==
    LET q1 == IF Contains(Upper(q), "RIGHT JOIN") THEN _convert_right_to_left_join(q) ELSE q
        r2 == IF Truthy(ctx) /\ HasKey(ctx, "indexes")
              THEN _optimize_join_conditions(q1, ctx.indexes) ELSE Returned(q1)
    IN IF r2.raised THEN Raised
       ELSE IF Truthy(ctx) /\ HasKey(ctx, "table_sizes")
       THEN Returned(_reorder_joins_by_size(r2.out))
       ELSE r2

\* a variant that puts EXISTS in the place of IN before a subquery
SubqueriesRewritten(q, ctx) == Returned(Replace(q, " IN (SELECT", " EXISTS (SELECT"))
\* the loop only builds a string that is never used
_optimize_subqueries(q, ctx) == Returned(q)

\* WHERE\s+(\w+)\.?(\w+)?\s*[=<>] matched from position i:
\* [e |-> position after the match (0 for none), column |-> group(2) or group(1)]
WhereColumnAt(q, i) ==
    LET p1 == SkipSpace(q, i + 5)
        a == SkipWord(q, p1)
        b == IF At(q, a, ".") THEN SkipWord(q, a + 1) ELSE a
        op == SkipSpace(q, b)
    IN IF /\ AtCI(q, i, "WHERE") /\ p1 > i + 5 /\ a > p1
          /\ op <= Len(q) /\ Char(q, op) \in {"=", "<", ">"}
       THEN [e |-> op + 1,
             column |-> IF b > a + 1 THEN SubSeq(q, a + 1, b - 1) ELSE SubSeq(q, p1, a - 1)]
       ELSE [e |-> 0, column |-> ""]
\* the columns of the matches re.finditer yields over q[i:]
RECURSIVE WhereColumns(_, _)
WhereColumns(q, i) ==
    LET j == First({k \in i..Len(q) : WhereColumnAt(q, k).e # 0})
    IN IF j = 0 THEN <<>>
       ELSE <<WhereColumnAt(q, j).column>> \o WhereColumns(q, WhereColumnAt(q, j).e)
\* set(indexes_used)
IndexesUsed(q, indexes) ==
    {indexes.entries[n].name : n \in {k \in 1..Len(indexes.entries) :
        \E c \in Range(WhereColumns(q, 1)) : InSeq(c, indexes.entries[k].cols)}}

\* order: the elements of set(indexes_used) in the order ', '.join iterates the set
_add_index_hints(q, ctx, order) ==
    IF ~Truthy(ctx) \/ ~HasKey(ctx, "indexes") THEN Returned(q)
    \* a list has no .items()
    ELSE IF WhereColumns(q, 1) # <<>> /\ ctx.indexes.kind # "dict" THEN Raised
    ELSE IF IndexesUsed(q, ctx.indexes) # {} /\ db_type = "sqlite"
    THEN Returned("-- Suggested indexes: " \o Join(", ", order) \o "\n" \o q)
    ELSE Returned(q)

\* DATE\((\w+)\)\s*=\s*'([^']+)' matched from position i:
\* [e |-> position after the match (0 for none), column, date_value]
DateEqualityAt(q, i) ==
    LET a == SkipWord(q, i + 5)
        eq == SkipSpace(q, a + 1)
        v == SkipSpace(q, eq + 1)
        close == FindFrom(q, "'", v + 1)
    IN IF /\ AtCI(q, i, "DATE(") /\ a > i + 5 /\ At(q, a, ")")
          /\ At(q, eq, "=") /\ At(q, v, "'") /\ close > v + 1
       THEN [e |-> close + 1, column |-> SubSeq(q, i + 5, a - 1),
             date_value |-> SubSeq(q, v + 1, close - 1)]
       ELSE [e |-> 0, column |-> "", date_value |-> ""]
\* re.sub(date_pattern, replace_date_equality, q) of q[i:]
RECURSIVE ReplaceDateEqualities(_, _)
ReplaceDateEqualities(q, i) ==
    LET j == First({k \in i..Len(q) : DateEqualityAt(q, k).e # 0})
        m == DateEqualityAt(q, j)
    IN IF j = 0 THEN SubSeq(q, i, Len(q))
       ELSE SubSeq(q, i, j - 1)
            \o m.column \o " BETWEEN '" \o m.date_value \o " 00:00:00' AND '"
            \o m.date_value \o " 23:59:59'"
            \o ReplaceDateEqualities(q, m.e)

\* DATE\('now', '-(\d+) days?'\) matched from position i: [e, days |-> group(1)]
RelativeDateAt(q, i) ==
    LET d == SkipDigits(q, i + 14)
        t == IF AtCI(q, d, " DAYS") THEN d + 5 ELSE d + 4
    IN IF /\ AtCI(q, i, "DATE('NOW', '-") /\ d > i + 14
          /\ AtCI(q, d, " DAY") /\ At(q, t, "')")
       THEN [e |-> t + 2, days |-> SubSeq(q, i + 14, d - 1)]
       ELSE [e |-> 0, days |-> ""]
RECURSIVE ReplaceRelativeDates(_, _)
ReplaceRelativeDates(q, i) ==
    LET j == First({k \in i..Len(q) : RelativeDateAt(q, k).e # 0})
        m == RelativeDateAt(q, j)
    IN IF j = 0 THEN SubSeq(q, i, Len(q))
       ELSE SubSeq(q, i, j - 1) \o "DATE('now', '-" \o m.days \o " days')"
            \o ReplaceRelativeDates(q, m.e)
\* re.sub(r"DATETIME\('now', 'localtime'\)", "DATETIME('now')", q) of q[i:]
RECURSIVE ReplaceLocaltime(_, _)
ReplaceLocaltime(q, i) ==
    LET j == First({k \in i..Len(q) : AtCI(q, k, "DATETIME('NOW', 'LOCALTIME')")})
    IN IF j = 0 THEN SubSeq(q, i, Len(q))
       ELSE SubSeq(q, i, j - 1) \o "DATETIME('now')" \o ReplaceLocaltime(q, j + 28)

_optimize_relative_dates(q) ==
    IF db_type = "sqlite" THEN ReplaceLocaltime(ReplaceRelativeDates(q, 1), 1) ELSE q

_optimize_date_functions(q, ctx) ==
    Returned(_optimize_relative_dates(ReplaceDateEqualities(q, 1)))

_prevent_cartesian_product(q, ctx) ==
    LET tables_str == FromGroup(q)
    IN IF /\ tables_str # ""
          /\ Count(tables_str, ",") + 1 > 1
          /\ ~Contains(Upper(q), "JOIN")
          /\ ~Contains(Upper(q), "WHERE")
       THEN Returned("-- WARNING: Potential cartesian product - consider adding JOIN conditions\n"
                     \o q)
       ELSE Returned(q)

_fix_group_by_columns(q) == q
_optimize_having_clause(q) == q

_optimize_aggregations(q, ctx) ==
    LET q1 == IF Contains(Upper(q), "GROUP BY") THEN _fix_group_by_columns(q) ELSE q
        q2 == Replace(q1, "COUNT(*)", "COUNT(1)")
    IN Returned(IF Contains(Upper(q2), "HAVING") THEN _optimize_having_clause(q2) ELSE q2)

\* \b(MIN|MAX)\s*\(
MinMaxCall(q) ==
    \E i \in 1..Len(q) :
        /\ AtCI(q, i, "MIN") \/ AtCI(q, i, "MAX")
        /\ Boundary(q, i)
        /\ At(q, SkipSpace(q, i + 3), "(")
\* the ends e (exclusive) the group [^)]+ can have when it starts at x:
\* the look-ahead \s+LIMIT holds at e
OrderByEnds(q, x) ==
    {e \in (x + 1)..Len(q) :
        /\ \A j \in x..(e - 1) : Char(q, j) # ")"
        /\ IsSpace(Char(q, e))
        /\ AtCI(q, SkipSpace(q, e), "LIMIT")}
\* ORDER\s+BY\s+[^)]+(?=\s+LIMIT) matched from position i: the position after the
\* match, 0 for none.  \s+ keeps as much whitespace as leaves the group a match,
\* the group then runs to the last whitespace in front of the last LIMIT.
OrderByEnd(q, i) ==
    LET p1 == SkipSpace(q, i + 5)
        p == SkipSpace(q, p1 + 2)
        X == {x \in (p1 + 3)..p : OrderByEnds(q, x) # {}}
    IN IF AtCI(q, i, "ORDER") /\ p1 > i + 5 /\ AtCI(q, p1, "BY") /\ X # {}
       THEN Max(OrderByEnds(q, Max(X)))
       ELSE 0
\* re.sub(pattern, '', q) of q[i:]
RECURSIVE RemoveOrderBy(_, _)
RemoveOrderBy(q, i) ==
    LET j == First({k \in i..Len(q) : OrderByEnd(q, k) # 0})
    IN IF j = 0 THEN SubSeq(q, i, Len(q))
       ELSE SubSeq(q, i, j - 1) \o RemoveOrderBy(q, OrderByEnd(q, j))

_ensure_order_by_in_select(q) == q

_optimize_order_by(q, ctx) ==
    LET q1 == IF Contains(Upper(q), "LIMIT 1") /\ MinMaxCall(q)
              THEN RemoveOrderBy(q, 1) ELSE q
    IN Returned(IF db_type \in {"postgresql", "mysql"}
                THEN _ensure_order_by_in_select(q1) ELSE q1)

\* a variant without the early return for an unchanged query
ScoreWithoutEqualityTest(original, optimized) ==
    LET s1 == IF Contains(optimized, "LIMIT") /\ ~Contains(original, "LIMIT") THEN 20 ELSE 0
        s2 == IF Count(optimized, "*") < Count(original, "*") THEN 15 ELSE 0
        s3 == IF Contains(optimized, "EXISTS") /\ Contains(original, "IN") THEN 10 ELSE 0
        s4 == IF ~Contains(optimized, "-- WARNING") /\ Len(optimized) < Len(original)
              THEN 5 ELSE 0
        s5 == IF Contains(optimized, "COUNT(1)") /\ Contains(original, "COUNT(*)")
              THEN 5 ELSE 0
        score == s1 + s2 + s3 + s4 + s5
    IN IF score < 100 THEN score ELSE 100

_calculate_improvement_score(original, optimized) ==
    LET s1 == IF Contains(optimized, "LIMIT") /\ ~Contains(original, "LIMIT") THEN 20 ELSE 0
        s2 == IF Count(optimized, "*") < Count(original, "*") THEN 15 ELSE 0
        s3 == IF Contains(optimized, "EXISTS") /\ Contains(original, "IN") THEN 10 ELSE 0
        s4 == IF ~Contains(optimized, "-- WARNING") /\ Len(optimized) < Len(original)
              THEN 5 ELSE 0
        s5 == IF Contains(optimized, "COUNT(1)") /\ Contains(original, "COUNT(*)")
              THEN 5 ELSE 0
        score == s1 + s2 + s3 + s4 + s5
    IN IF original = optimized THEN 0
       ELSE IF score < 100 THEN score ELSE 100

\* rule.__name__.replace('_', ' ').title(): every letter that follows a non-letter
\* becomes upper case
RuleTitle(method) ==
    ConcatAll([i \in 1..Len(method) |->
                  IF Char(method, i) = "_" THEN " "
                  ELSE IF i = 1 \/ Char(method, i - 1) \notin (LowerSet \cup UpperSet)
                  THEN UpperChar(Char(method, i))
                  ELSE LowerChar(Char(method, i))],
              1, Len(method))

\* a variant of the rule list with the first two rules exchanged
RulesLimitFirst ==
    << "_add_limit_if_missing", "_normalize_whitespace", "_optimize_wildcards",
       "_optimize_joins", "_optimize_subqueries", "_add_index_hints",
       "_optimize_date_functions", "_prevent_cartesian_product",
       "_optimize_aggregations", "_optimize_order_by" >>

optimization_rules ==
    << "_normalize_whitespace", "_add_limit_if_missing", "_optimize_wildcards",
       "_optimize_joins", "_optimize_subqueries", "_add_index_hints",
       "_optimize_date_functions", "_prevent_cartesian_product",
       "_optimize_aggregations", "_optimize_order_by" >>

\* rule(sql_query, context); order is the answer of the set iteration in
\* _add_index_hints
RunRule(rule, q, ctx, order) ==
    CASE rule = "_normalize_whitespace"      -> _normalize_whitespace(q, ctx)
      [] rule = "_add_limit_if_missing"      -> _add_limit_if_missing(q, ctx)
      [] rule = "_optimize_wildcards"        -> _optimize_wildcards(q, ctx)
      [] rule = "_optimize_joins"            -> _optimize_joins(q, ctx)
      [] rule = "_optimize_subqueries"       -> _optimize_subqueries(q, ctx)
      [] rule = "_add_index_hints"           -> _add_index_hints(q, ctx, order)
      [] rule = "_optimize_date_functions"   -> _optimize_date_functions(q, ctx)
      [] rule = "_prevent_cartesian_product" -> _prevent_cartesian_product(q, ctx)
      [] rule = "_optimize_aggregations"     -> _optimize_aggregations(q, ctx)
      [] rule = "_optimize_order_by"         -> _optimize_order_by(q, ctx)

\* the orders in which a set can be iterated
Orders(S) == {o \in [1..Cardinality(S) -> S] : Range(o) = S}

\* a variant in which an exception ends the loop
NextRuleBreak(i, raised) == IF raised THEN Len(optimization_rules) + 1 ELSE i + 1

\* the index of the rule the for loop runs after rule i: an exception is caught
\* and the loop continues
NextRule(i, raised) == i + 1

\* rules_applied is keyed by rule name; a name it does not hold counts 0
ZeroOptStats == [queries_optimized |-> 0,
                 rules_applied |-> [r \in {RuleTitle(m) : m \in Range(optimization_rules)}
                                       |-> 0],
                 total_optimizations |-> 0]

(***************************************************************************)
(* The inputs of the model                                                 *)
(***************************************************************************)
\* the longest tail of clauses appended to a head
MaxClauses == 1
\* how many times in a row optimize() is applied to its own output
MaxPasses == 2
\* how many calls one caller makes on the same engine
MaxCalls == 3

Scenarios ==
    { "SELECT * FROM products",
      "DROP TABLE customers",
      "SELECT a.x FROM a, b",
      "SELECT a.x FROM a, b;",
      "SELECT *, a.*, b.* FROM a, b",
      "SELECT updated_at FROM products",
      "select created_at from t",
      "select count(*) from t",
      "select id from t where deleted = 1",
      "DROP TABLE t WHERE 1=1",
      "SELECT a FROM t WHERE (a=1",
      "SELECT * FROM (SELECT 1)",
      "SELECT a FROM t WHERE x=1 LIMIT 5",
      "SELECT  a FROM t LIMIT 5",
      "SELECT a FROM t WHERE EXISTS (SELECT 1 FROM u WHERE b IN (1))",
      "SELECT name FROM t JOIN u WHERE 1 = 0 AND a = NULL ORDER BY 1",
      "SELECT * FROM t RIGHT JOIN u ON t.x = u.y",
      "SELECT * FROM t WHERE a = 1 AND t.zz > 2",
      "SELECT MAX(a) FROM t ORDER BY a LIMIT 1",
      "SELECT MAX(a) FROM t ORDER BY a",
      "SELECT x FROM t WHERE DATE(d) = '2024-01-01'",
      "SELECT Count(*) FROM missing WHERE y = 2",
      "INSERT INTO t VALUES (1)",
      "SELECT a FROM gone JOIN T ON 1=1 JOIN gone g ON 1=1 JOIN lost ON 1=1",
      "SELECT a FROM t WHERE )a=1(",
      "SELECT a FROM t WHERE b = 'x",
      "SELECT \"a FROM t",
      "SELECT a FROM t WHERE a IN (SELECT b FROM u)",
      "SELECT a FROM t WHERE a<=1 AND b!=2 LIMIT 5",
      "SELECT a FROM t WHERE a>=1 AND b<>2 LIMIT 5",
      "SELECT a FROM t;;",
      "SELECT a FROM t; SELECT b FROM u",
      "SELECT a FROM t WHERE b = ';' LIMIT 1",
      "SELECT a FROM t WHERE name = 'x' AND code = 'y'",
      "SELECT a FROM t WHERE b = 'c=d  e' LIMIT 5",
      "SELECT a FROM t RIGHT JOIN u RIGHT JOIN v" }
Heads == { "SELECT *", "select count(*)", "SELECT COUNT(*), t.a", "SELECT a" }
Clauses == << " FROM t", " FROM t, u", " WHERE x=1", " WHERE a = NULL OR 1=1",
              " ORDER BY 1 LIMIT 1", ";" >>
\* the texts made of at most k of the clauses from the i-th on, in their order
RECURSIVE Tails(_, _)
Tails(k, i) ==
    {""} \cup (IF k = 0 THEN {}
               ELSE UNION {{Clauses[j] \o t : t \in Tails(k - 1, j + 1)} :
                           j \in i..Len(Clauses)})
Corpus == Scenarios \cup {h \o t : h \in Heads, t \in Tails(MaxClauses, 1)}

Connections == {ConnNone, ConnLive, ConnClosed}
ValidateContexts == {CtxNone, CtxLimit, CtxSchema, CtxBad}
OptimizeContexts == {CtxNone, CtxEmpty, CtxLimit, CtxAgent, CtxSchema, CtxBad}

\* what EXPLAIN QUERY PLAN can answer on the connection
ExplainOk == [ok |-> TRUE, error |-> ""]
ExplainAnswers(c) ==
    IF ~c.live THEN {ExplainOk}
    ELSE IF c.closed THEN {[ok |-> FALSE, error |-> "Cannot operate on a closed database."]}
    ELSE {ExplainOk, [ok |-> FALSE, error |-> "near \"FROM\": syntax error"]}

(***************************************************************************)
(* State                                                                   *)
(***************************************************************************)
VARIABLES
    conn,          \* QueryValidator.conn
    stats,         \* QueryValidator.stats
    v_pc,          \* where validate() is: "idle", "checking", "done"
    v_i,           \* index of the check the for loop runs next
    v_query,       \* validate's sql_query argument
    v_context,     \* validate's context argument
    v_result,      \* validate's result dictionary
    v_log,         \* what each check_func call returned, in call order
    v_history,     \* the completed validate() calls: arguments, log and result
    v_calls,       \* validate() calls since construction or the last reset_statistics()
    ostats,        \* QueryOptimizer.stats
    o_pc,          \* where optimize() is: "idle", "rules", "done"
    o_i,           \* index of the rule the for loop runs next
    o_context,     \* optimize's context argument
    original_query,
    sql_query,
    optimizations_applied,
    o_result,      \* the dictionary optimize() returned
    o_log,         \* per rule of this call: the text it received and what it returned
    o_history,     \* the results of the completed optimize() calls
    iteration,     \* the orders in which this process has iterated its sets so far
    enable_validation,    \* EnhancedTextToSQLAgent.enable_validation
    enable_optimization,  \* EnhancedTextToSQLAgent.enable_optimization
    enhanced_stats,       \* EnhancedTextToSQLAgent.enhanced_stats
    a_pc,          \* where generate_sql() is: "idle", "validate", "optimize", "done"
    a_sql,         \* generate_sql's local sql_query
    a_result,      \* the dictionary generate_sql() returned
    query_cache,   \* TextToSQLAgent.query_cache: cache key -> cached dictionary
    a_alias,       \* the cache keys whose entry is the very dictionary `result`
    a_history,     \* the questions asked and the dictionaries returned for them
    max_size,      \* QueryCache.max_size
    strategy,      \* QueryCache.strategy
    memory_cache,  \* QueryCache.memory_cache, an OrderedDict: key and entry, in order
    access_counts, \* QueryCache.access_counts, a dict: key and count, in insertion order
    access_times,  \* QueryCache.access_times, a dict: key and time, in insertion order
    cache_dir,     \* the .cache files of QueryCache.cache_dir: key and entry
    cache_stats,   \* QueryCache.stats
    clock,         \* what time.time() returns
    cache_calls    \* the calls made on the QueryCache so far

vvars == <<conn, stats, v_pc, v_i, v_query, v_context, v_result, v_log, v_history,
           v_calls>>
ovars == <<ostats, o_pc, o_i, o_context, original_query, sql_query,
           optimizations_applied, o_result, o_log, o_history>>
avars == <<enable_validation, enable_optimization, enhanced_stats, a_pc, a_sql, a_result,
           query_cache, a_alias, a_history>>
cvars == <<max_size, strategy, memory_cache, access_counts, access_times, cache_dir,
           cache_stats, clock, cache_calls>>
vars == <<vvars, ovars, iteration, avars, cvars>>

NoOptResult == [original_query |-> "", optimized_query |-> "",
                optimizations_applied |-> <<>>, optimization_count |-> 0,
                improvement_score |-> 0, is_optimized |-> FALSE]
NoAgentResult == [success |-> FALSE, sql_query |-> "", error |-> "",
                  validation |-> FALSE, optimization |-> FALSE, from_cache |-> FALSE]
ZeroEnhancedStats == [queries_optimized |-> 0, queries_validated |-> 0,
                      optimization_improvements |-> 0, validation_failures |-> 0]

(***************************************************************************)
(* utils/cache.py: QueryCache                                              *)
(***************************************************************************)
\* Python dicts as sequences of items [k, v] in insertion order
DictKeys(d) == {d[i].k : i \in 1..Len(d)}
DictGet(d, key) == d[CHOOSE i \in 1..Len(d) : d[i].k = key].v
DictSet(d, key, value) ==
    IF key \in DictKeys(d)
    THEN [i \in 1..Len(d) |-> IF d[i].k = key THEN [k |-> key, v |-> value] ELSE d[i]]
    ELSE Append(d, [k |-> key, v |-> value])
DictDel(d, key) == SelectSeq(d, LAMBDA item : item.k # key)
\* OrderedDict.move_to_end(key)
MoveToEnd(d, key) == Append(DictDel(d, key), [k |-> key, v |-> DictGet(d, key)])
\* min(d, key=d.get): the first key, in insertion order, with the least value
MinKey(d) == d[CHOOSE i \in 1..Len(d) :
                   /\ \A j \in 1..Len(d) : d[i].v <= d[j].v
                   /\ \A j \in 1..(i - 1) : d[j].v > d[i].v].k
\* the files of a directory without the file of key
WithoutFile(dir, key) == [f \in (DOMAIN dir) \ {key} |-> dir[f]]

ttl_seconds == 1
ZeroCacheStats == [hits |-> 0, misses |-> 0, evictions |-> 0, total_queries |-> 0]

\* get_cache_key without params: the SHA-256 digest of the normalized query, one
\* digest per normalized text
get_cache_key(query) == <<"sha256", Strip(Lower(query))>>

\* the cache as one value, for the methods that call each other
ThisCache == [memory_cache |-> memory_cache, access_counts |-> access_counts,
              access_times |-> access_times, cache_dir |-> cache_dir,
              stats |-> cache_stats]

\* entry expired at time now
EntryExpired(entry, now) == (now - entry.timestamp) > entry.ttl
_is_expired(c, key, now) ==
    IF key \notin DictKeys(c.memory_cache) THEN TRUE
    ELSE EntryExpired(DictGet(c.memory_cache, key), now)

_remove_from_cache(c, key) ==
    [c EXCEPT !.memory_cache = DictDel(@, key),
              !.access_counts = DictDel(@, key),
              !.access_times = DictDel(@, key),
              !.cache_dir = WithoutFile(@, key)]

_add_to_memory_cache(c, key, entry, now) ==
    [c EXCEPT !.memory_cache = IF strategy = "lru"
                               THEN MoveToEnd(DictSet(@, key, entry), key)
                               ELSE DictSet(@, key, entry),
              !.access_counts = DictSet(@, key, 1),
              !.access_times = DictSet(@, key, now)]

_update_access(c, key, now) ==
    [c EXCEPT !.memory_cache = IF strategy = "lru" THEN MoveToEnd(@, key) ELSE @,
              !.access_counts = IF strategy = "lfu"
                                THEN DictSet(@, key, DictGet(@, key) + 1) ELSE @,
              !.access_times = DictSet(@, key, now)]

_evict(c) ==
    IF Len(c.memory_cache) = 0 THEN c
    ELSE LET key_to_evict == IF strategy = "lru" THEN c.memory_cache[1].k
                             ELSE IF strategy = "lfu" THEN MinKey(c.access_counts)
                             ELSE MinKey(c.access_times)
         IN [_remove_from_cache(c, key_to_evict) EXCEPT !.stats.evictions = @ + 1]

\* _load_from_disk: the cache afterwards, and whether an entry was loaded
_load_from_disk(c, key, now) ==
    IF key \notin DOMAIN c.cache_dir THEN [cache |-> c, found |-> FALSE]
    ELSE IF EntryExpired(c.cache_dir[key], now)
    THEN [cache |-> [c EXCEPT !.cache_dir = WithoutFile(@, key)], found |-> FALSE]
    ELSE [cache |-> c, found |-> TRUE]

\* the cache after get(query)
AfterGet(c, query, now) ==
    LET key == get_cache_key(query)
        counted == [c EXCEPT !.stats.total_queries = @ + 1]
        loaded == _load_from_disk(counted, key, now)
    IN IF key \in DictKeys(c.memory_cache)
       THEN IF _is_expired(counted, key, now)
            THEN [_remove_from_cache(counted, key) EXCEPT !.stats.misses = @ + 1]
            ELSE [_update_access(counted, key, now) EXCEPT !.stats.hits = @ + 1]
       ELSE IF loaded.found
            THEN [_add_to_memory_cache(loaded.cache, key, loaded.cache.cache_dir[key], now)
                      EXCEPT !.stats.hits = @ + 1]
            ELSE [loaded.cache EXCEPT !.stats.misses = @ + 1]

\* the cache after set(query, result, None, ttl_override); ttl_override 0 stands
\* for None as well
AfterSet(c, query, ttl_override, now) ==
    LET key == get_cache_key(query)
        cache_entry == [query |-> query, timestamp |-> now,
                        ttl |-> IF ttl_override # 0 THEN ttl_override ELSE ttl_seconds]
        room == IF Len(c.memory_cache) >= max_size THEN _evict(c) ELSE c
        added == _add_to_memory_cache(room, key, cache_entry, now)
    IN [added EXCEPT !.cache_dir = (key :> cache_entry) @@ WithoutFile(@, key)]

\* the cache after invalidate(None)
AfterInvalidateAll(c) ==
    [c EXCEPT !.memory_cache = << >>, !.access_counts = << >>, !.access_times = << >>,
              !.cache_dir = << >>]

\* the cache after removing the keys of the sequence keys, one after the other
RECURSIVE RemoveKeys(_, _)
RemoveKeys(c, keys) ==
    IF Len(keys) = 0 THEN c ELSE RemoveKeys(_remove_from_cache(c, Head(keys)), Tail(keys))
\* the keys of the entries of d that satisfy Test, in order
KeysWhere(d, Test(_)) ==
    LET hits == SelectSeq(d, LAMBDA item : Test(item.v))
    IN [i \in 1..Len(hits) |-> hits[i].k]

\* the cache after invalidate(pattern)
AfterInvalidate(c, pattern) ==
    LET Matches(entry) == Contains(Lower(entry.query), Lower(pattern))
    IN RemoveKeys(c, KeysWhere(c.memory_cache, Matches))

\* the cache after cleanup_expired()
AfterCleanup(c, now) ==
    LET Expired(entry) == EntryExpired(entry, now)
        kept == RemoveKeys(c, KeysWhere(c.memory_cache, Expired))
    IN [kept EXCEPT !.cache_dir =
           [f \in {g \in DOMAIN @ : g \in DictKeys(kept.memory_cache)
                                        \/ ~EntryExpired(@[g], now)} |-> @[f]]]

\* QueryCache.__init__ over a directory that holds the files dir
InitQueryCache(size, strat, dir) ==
    /\ max_size = size /\ strategy = strat
    /\ memory_cache = << >> /\ access_counts = << >> /\ access_times = << >>
    /\ cache_dir = dir /\ cache_stats = ZeroCacheStats
    /\ clock = 0 /\ cache_calls = 0

MaxCacheCalls == 4
MaxTime == 2

\* a method returns and leaves the cache c
CacheCall(c) ==
    /\ cache_calls' = cache_calls + 1
    /\ memory_cache' = c.memory_cache
    /\ access_counts' = c.access_counts
    /\ access_times' = c.access_times
    /\ cache_dir' = c.cache_dir
    /\ cache_stats' = c.stats
    /\ UNCHANGED <<max_size, strategy, clock, vvars, ovars, iteration, avars>>

get(query) ==
    /\ cache_calls < MaxCacheCalls
    /\ CacheCall(AfterGet(ThisCache, query, clock))
set(query, ttl_override) ==
    /\ cache_calls < MaxCacheCalls
    /\ CacheCall(AfterSet(ThisCache, query, ttl_override, clock))
invalidate_all ==
    /\ cache_calls < MaxCacheCalls
    /\ CacheCall(AfterInvalidateAll(ThisCache))
invalidate(pattern) ==
    /\ cache_calls < MaxCacheCalls
    /\ CacheCall(AfterInvalidate(ThisCache, pattern))
cleanup_expired ==
    /\ cache_calls < MaxCacheCalls
    /\ CacheCall(AfterCleanup(ThisCache, clock))
\* time passes
Tick ==
    /\ clock < MaxTime
    /\ clock' = clock + 1
    /\ UNCHANGED <<max_size, strategy, memory_cache, access_counts, access_times, cache_dir,
                   cache_stats, cache_calls, vvars, ovars, iteration, avars>>

\* QueryValidator.__init__ with a connection c
InitValidator(c) ==
    /\ conn = c
    /\ stats = ZeroStats
    /\ v_pc = "idle" /\ v_i = 0 /\ v_query = "" /\ v_context = CtxNone
    /\ v_result = NewResult("") /\ v_log = <<>> /\ v_history = <<>> /\ v_calls = 0
\* QueryOptimizer.__init__
InitOptimizer ==
    /\ ostats = ZeroOptStats
    /\ o_pc = "idle" /\ o_i = 0 /\ o_context = CtxNone
    /\ original_query = "" /\ sql_query = "" /\ optimizations_applied = <<>>
    /\ o_result = NoOptResult /\ o_log = <<>> /\ o_history = <<>>
\* EnhancedTextToSQLAgent.__init__ with the two switches
InitAgent(validation, optimization) ==
    /\ enable_validation = validation /\ enable_optimization = optimization
    /\ enhanced_stats = ZeroEnhancedStats
    /\ a_pc = "idle" /\ a_sql = "" /\ a_result = NoAgentResult
    /\ query_cache = << >> /\ a_alias = {} /\ a_history = << >>
\* a process that has iterated no set yet and has a QueryCache of the default size
\* and strategy over an empty directory
InitProcess == iteration = {} /\ InitQueryCache(100, "lru", << >>)

Init == /\ \E c \in Connections : InitValidator(c)
        /\ InitOptimizer /\ InitAgent(TRUE, TRUE) /\ InitProcess

\* a variant in which every iteration of a set may come in a new order
IterationOrdersUnstable(S, seen) == Orders(S)
\* list(set(...)) and iteration over a set: the orders in which this process can
\* iterate the set S, given the orders seen it has iterated sets in so far. The hash
\* seed is fixed when the process starts, so a set iterated before comes in the
\* same order again.
IterationOrders(S, seen) ==
    IF \E o \in seen : Range(o) = S THEN {o \in seen : Range(o) = S} ELSE Orders(S)

(***************************************************************************)
(* validate(sql_query, context)                                            *)
(***************************************************************************)
\* lines 92-116: count the call and build the empty result
BeginValidate(q, ctx) ==
    /\ stats' = [stats EXCEPT !.queries_validated = @ + 1]
    /\ v_query' = q /\ v_context' = ctx
    /\ v_result' = NewResult(q)
    /\ v_i' = 1 /\ v_pc' = "checking" /\ v_log' = <<>>
    /\ v_calls' = v_calls + 1
    /\ UNCHANGED <<cvars, conn, v_history, ovars, iteration, avars>>

\* a caller passes a query to a validator that has not been called yet
Validate(q, ctx) ==
    /\ v_pc = "idle"
    /\ BeginValidate(q, ctx)

\* one iteration of the for loop over checks
RunCheck ==
    /\ v_pc = "checking" /\ v_i <= Len(checks)
    /\ LET name == checks[v_i] IN
       \E explain \in (IF name = "syntax" THEN ExplainAnswers(conn) ELSE {ExplainOk}) :
       \E order \in (IF name = "schema"
                     THEN IterationOrders(_extract_table_names(v_query), iteration)
                     ELSE {<<>>}) :
       \E cr \in {RunCheckFunc(name, v_query, v_context, conn, explain, order)} :
             /\ v_result' = IF cr.raised THEN CheckFailed(v_result, name)
                            ELSE MergeCheck(v_result, name, cr.result)
             /\ stats' = IF cr.raised THEN stats ELSE MergeStats(stats, name, cr.result)
             /\ v_log' = Append(v_log, [name |-> name, raised |-> cr.raised,
                                        result |-> cr.result, explain |-> explain])
             /\ iteration' = IF name = "schema" THEN iteration \cup {order} ELSE iteration
    /\ v_i' = v_i + 1
    /\ UNCHANGED <<cvars, conn, v_pc, v_query, v_context, v_history, v_calls, ovars, avars>>

\* lines 148-160: risk level, pass/fail counters, summary, return
FinishValidate ==
    /\ v_pc = "checking" /\ v_i > Len(checks)
    /\ LET r1 == [v_result EXCEPT !.risk_level = _calculate_risk_level(v_result)]
       IN v_result' = [r1 EXCEPT !.summary = _generate_summary(r1)]
    /\ stats' = IF v_result.is_valid
                THEN [stats EXCEPT !.queries_passed = @ + 1]
                ELSE [stats EXCEPT !.queries_failed = @ + 1]
    /\ v_history' = Append(v_history, [query |-> v_query, context |-> v_context,
                                       log |-> v_log, result |-> v_result'])
    /\ v_pc' = "done"
    /\ UNCHANGED <<cvars, conn, v_i, v_query, v_context, v_log, v_calls, ovars, iteration, avars>>

\* lines 683-693, called by another thread: replace the counters by zeros
\* a variant that clears queries_validated only
ResetValidatedOnly ==
    /\ stats' = [stats EXCEPT !.queries_validated = 0]
    /\ v_calls' = 0
    /\ UNCHANGED <<cvars, conn, v_pc, v_i, v_query, v_context, v_result, v_log, v_history,
                   ovars, iteration, avars>>

reset_statistics ==
    /\ stats' = ZeroStats
    /\ v_calls' = 0
    /\ UNCHANGED <<cvars, conn, v_pc, v_i, v_query, v_context, v_result, v_log, v_history,
                   ovars, iteration, avars>>

(***************************************************************************)
(* optimize(sql_query, context)                                            *)
(***************************************************************************)
\* lines 67-68
BeginOptimize(q, ctx) ==
    /\ original_query' = q /\ sql_query' = q /\ o_context' = ctx
    /\ optimizations_applied' = <<>>
    /\ o_i' = 1 /\ o_pc' = "rules" /\ o_log' = <<>>
    /\ UNCHANGED <<cvars, ostats, o_result, o_history, vvars, iteration, avars>>

\* a caller passes a query
Optimize(q, ctx) ==
    /\ o_pc = "idle"
    /\ BeginOptimize(q, ctx)

\* a caller passes the optimized query back in, with the same context
Reoptimize ==
    /\ o_pc = "done" /\ Len(o_history) < MaxPasses
    /\ BeginOptimize(o_result.optimized_query, o_context)

\* one iteration of the for loop over optimization_rules
ApplyRule ==
    /\ o_pc = "rules" /\ o_i <= Len(optimization_rules)
    /\ LET rule == optimization_rules[o_i]
           before == sql_query
           hints == rule = "_add_index_hints" /\ Truthy(o_context)
                       /\ HasKey(o_context, "indexes") /\ o_context.indexes.kind = "dict"
       IN \E order \in (IF hints
                        THEN IterationOrders(IndexesUsed(before, o_context.indexes),
                                             iteration)
                        ELSE {<<>>}) :
       \E r \in {RunRule(rule, before, o_context, order)} :
          LET changed == ~r.raised /\ before # r.out
              rule_name == RuleTitle(rule)
          IN /\ sql_query' = IF r.raised THEN before ELSE r.out
             /\ optimizations_applied' = IF changed
                                         THEN Append(optimizations_applied, rule_name)
                                         ELSE optimizations_applied
             /\ ostats' = IF changed
                          THEN [ostats EXCEPT !.rules_applied[rule_name] = @ + 1]
                          ELSE ostats
             /\ o_log' = Append(o_log, [rule |-> rule, before |-> before,
                                        raised |-> r.raised, out |-> r.out])
             /\ o_i' = NextRule(o_i, r.raised)
             /\ iteration' = IF hints THEN iteration \cup {order} ELSE iteration
    /\ UNCHANGED <<cvars, o_pc, o_context, original_query, o_result, o_history, vvars, avars>>

\* lines 88-107: statistics, score, result
FinishOptimize ==
    /\ o_pc = "rules" /\ o_i > Len(optimization_rules)
    /\ ostats' = [ostats EXCEPT !.queries_optimized = @ + 1,
                                !.total_optimizations = @ + Len(optimizations_applied)]
    /\ o_result' = [original_query |-> original_query,
                    optimized_query |-> sql_query,
                    optimizations_applied |-> optimizations_applied,
                    optimization_count |-> Len(optimizations_applied),
                    improvement_score |->
                        _calculate_improvement_score(original_query, sql_query),
                    is_optimized |-> original_query # sql_query]
    /\ o_history' = Append(o_history, o_result')
    /\ o_pc' = "done"
    /\ UNCHANGED <<cvars, o_i, o_context, original_query, sql_query, optimizations_applied,
                   o_log, vvars, iteration, avars>>

(***************************************************************************)
(* EnhancedTextToSQLAgent.generate_sql(natural_language_query)             *)
(***************************************************************************)
\* core.py, TextToSQLAgent._validate_sql: the base agent's own test of the SQL the
\* language model answered
BaseDangerousKeywords == << "DROP", "DELETE", "TRUNCATE", "ALTER", "CREATE", "REPLACE",
                            "INSERT", "UPDATE" >>
_validate_sql(q, explain) ==
    LET stripped == Strip(q) IN
    /\ \A n \in 1..Len(BaseDangerousKeywords) : ~Contains(Upper(q), BaseDangerousKeywords[n])
    /\ ~Contains(SubSeq(stripped, 1, Len(stripped) - 1), ";")
    /\ explain.ok

\* the context generate_sql builds from the connection c: the indexes, table sizes
\* and columns of the database, or the bare defaults when the database fails
_prepare_optimization_context(c) ==
    IF ~c.live \/ c.closed
    THEN [CtxEmpty EXCEPT !.keys = {"default_limit", "indexes", "table_sizes"},
                          !.default_limit = 100]
    ELSE [CtxAgent EXCEPT
             !.keys = @ \cup {"schema"},
             !.schema = << [name |-> "t", info |-> DictInfo(<<"a", "x">>)],
                           [name |-> "u", info |-> DictInfo(<<"b", "y">>)],
                           [name |-> "Products",
                            info |-> DictInfo(<<"id", "updated_at">>)] >>]

\* a variant that goes on to the optimizer whatever the validator said
AfterValidationAlwaysOptimize(valid, optimization) ==
    IF optimization THEN "optimize" ELSE "done"
\* lines 101-115: where generate_sql goes after validate() returned
AfterValidation(valid, optimization) ==
    IF ~valid THEN "done" ELSE IF optimization THEN "optimize" ELSE "done"

\* what the caller of generate_sql has of a call: nothing until it returns, then
\* the dictionary
ReturnedTo(pc, result) == IF pc = "done" THEN result ELSE NoAgentResult

\* core.py, TextToSQLAgent._get_cache_key
_get_cache_key(query) == Strip(Lower(query))

\* where generate_sql goes once the base agent answered with success
AfterGeneration ==
    IF enable_validation THEN "validate" ELSE IF enable_optimization THEN "optimize" ELSE "done"

\* lines 90-98 with core.py 181-241: the base agent answers the question from its
\* cache with a copy of the cached dictionary, or with the SQL q of the language
\* model, which it caches when it passes its own test, or fails
GenerateSql(question, q, answered, explain) ==
    /\ a_pc = "idle"
    /\ IF _get_cache_key(question) \in DOMAIN query_cache
       THEN /\ a_result' = [query_cache[_get_cache_key(question)] EXCEPT
                                !.from_cache = TRUE]
            /\ a_sql' = query_cache[_get_cache_key(question)].sql_query
            /\ a_alias' = {}
            /\ a_pc' = AfterGeneration
            /\ UNCHANGED query_cache
       ELSE IF answered /\ _validate_sql(q, explain)
       THEN /\ a_sql' = q
            /\ a_result' = [NoAgentResult EXCEPT !.success = TRUE, !.sql_query = q]
            /\ query_cache' = (_get_cache_key(question) :> a_result') @@ query_cache
            /\ a_alias' = {_get_cache_key(question)}
            /\ a_pc' = AfterGeneration
       ELSE /\ a_sql' = a_sql
            /\ a_result' = [NoAgentResult EXCEPT !.sql_query = IF answered THEN q ELSE "",
                                                 !.error = "generation failed"]
            /\ a_alias' = {}
            /\ a_pc' = "done"
            /\ UNCHANGED query_cache
    /\ a_history' = Append(a_history, [question |-> question,
                                       result |-> ReturnedTo(a_pc', a_result')])
    /\ UNCHANGED <<cvars, enable_validation, enable_optimization, enhanced_stats,
                   vvars, ovars, iteration>>

\* an assignment to a key of `result` reaches the cache entry that is the same
\* dictionary
StoreThroughAlias(result) == [k \in DOMAIN query_cache |->
                                 IF k \in a_alias THEN result ELSE query_cache[k]]

\* line 99: self.validator.validate(sql_query)
AgentValidate ==
    /\ a_pc = "validate"
    /\ Validate(a_sql, CtxNone)

\* lines 101-112: validate() has returned
AgentValidated ==
    /\ a_pc = "validate" /\ v_pc = "done"
    /\ IF ~v_result.is_valid
       THEN /\ enhanced_stats' = [enhanced_stats EXCEPT !.validation_failures = @ + 1]
            /\ a_result' = [NoAgentResult EXCEPT
                               !.sql_query = a_sql,
                               !.error = "Validation failed: " \o v_result.summary]
            /\ a_alias' = {}
            /\ UNCHANGED query_cache
       ELSE /\ enhanced_stats' = [enhanced_stats EXCEPT !.queries_validated = @ + 1]
            /\ a_result' = [a_result EXCEPT !.validation = TRUE]
            /\ query_cache' = StoreThroughAlias(a_result')
            /\ UNCHANGED a_alias
    /\ a_pc' = AfterValidation(v_result.is_valid, enable_optimization)
    /\ a_history' = [a_history EXCEPT ![Len(a_history)].result = ReturnedTo(a_pc', a_result')]
    /\ UNCHANGED <<cvars, enable_validation, enable_optimization, a_sql, vvars, ovars, iteration>>

\* lines 117-119: self.optimizer.optimize(sql_query, context)
AgentOptimize ==
    /\ a_pc = "optimize"
    /\ Optimize(a_sql, _prepare_optimization_context(conn))

\* lines 121-131: optimize() has returned
AgentOptimized ==
    /\ a_pc = "optimize" /\ o_pc = "done"
    /\ IF o_result.is_optimized
       THEN /\ enhanced_stats' =
                   [enhanced_stats EXCEPT
                       !.queries_optimized = @ + 1,
                       !.optimization_improvements = @ + o_result.improvement_score]
            /\ a_sql' = o_result.optimized_query
            /\ a_result' = [a_result EXCEPT !.sql_query = o_result.optimized_query,
                                            !.optimization = TRUE]
            /\ query_cache' = StoreThroughAlias(a_result')
       ELSE UNCHANGED <<enhanced_stats, a_sql, a_result, query_cache>>
    /\ a_pc' = "done"
    /\ a_history' = [a_history EXCEPT ![Len(a_history)].result = a_result']
    /\ UNCHANGED <<cvars, enable_validation, enable_optimization, a_alias, vvars, ovars, iteration>>

(***************************************************************************)
(* Specifications                                                          *)
(***************************************************************************)
CallValidate == \E q \in Corpus : \E ctx \in ValidateContexts : Validate(q, ctx)
CallOptimize == \E q \in Corpus : \E ctx \in OptimizeContexts : Optimize(q, ctx)

NextValidate == CallValidate \/ RunCheck \/ FinishValidate
NextOptimize == CallOptimize \/ ApplyRule \/ FinishOptimize \/ Reoptimize

\* one validate() call on a validator
SpecValidate == Init /\ [][NextValidate]_vars
\* optimize() calls on an optimizer alone: the validator stays as constructed
\* without a connection
InitOptimize == InitValidator(ConnNone) /\ InitOptimizer /\ InitAgent(TRUE, TRUE)
                    /\ InitProcess
SpecOptimize == InitOptimize /\ [][NextOptimize]_vars

\* the queries of callers that call an engine several times: one names two absent
\* tables, one has two WHERE columns with an index each
Probes == { "SELECT a FROM gone JOIN lost ON 1=1",
            "SELECT 1 WHERE a=1 OR (SELECT 1 WHERE y=2)" }
RepeatContexts == {CtxNone, CtxSchema}

\* one validate() call while another thread resets the statistics
ProbeValidate == \E q \in Probes : \E ctx \in ValidateContexts : Validate(q, ctx)
NextReset == ProbeValidate \/ RunCheck \/ FinishValidate \/ reset_statistics
SpecReset == Init /\ [][NextReset]_vars

\* a caller that calls one of the two engines up to MaxCalls times, one call after
\* the other, with the same context
RepeatValidate == \E q \in Probes : \E ctx \in RepeatContexts :
                      o_pc = "idle" /\ Validate(q, ctx)
ValidateAgain == \E q \in Probes :
                     /\ v_pc = "done" /\ Len(v_history) < MaxCalls
                     /\ BeginValidate(q, v_context)
RepeatOptimize == \E q \in Probes : \E ctx \in RepeatContexts :
                      v_pc = "idle" /\ conn = ConnNone /\ Optimize(q, ctx)
OptimizeAgain == \E q \in Probes :
                     /\ o_pc = "done" /\ Len(o_history) < MaxCalls
                     /\ BeginOptimize(q, o_context)
NextRepeat == \/ RepeatValidate \/ RunCheck \/ FinishValidate \/ ValidateAgain
              \/ RepeatOptimize \/ ApplyRule \/ FinishOptimize \/ OptimizeAgain
InitRepeat == /\ \E c \in {ConnNone, ConnLive} : InitValidator(c)
              /\ InitOptimizer /\ InitAgent(TRUE, TRUE) /\ InitProcess
SpecRepeat == InitRepeat /\ [][NextRepeat]_vars

\* one caller makes up to MaxCalls validate() calls on one validator, one after the
\* other, and may call reset_statistics() before, between and after them
SequenceQueries == { "DROP TABLE (t", "SELECT a FROM t, u" }
SequenceValidate == \E q \in SequenceQueries : Validate(q, CtxNone)
SequenceValidateAgain == \E q \in SequenceQueries :
                             /\ v_pc = "done" /\ Len(v_history) < MaxCalls
                             /\ BeginValidate(q, v_context)
ResetBetweenCalls == v_pc # "checking" /\ reset_statistics
NextSequence == \/ SequenceValidate \/ RunCheck \/ FinishValidate
                \/ SequenceValidateAgain \/ ResetBetweenCalls
InitSequence == /\ \E c \in {ConnNone, ConnLive} : InitValidator(c)
                /\ InitOptimizer /\ InitAgent(TRUE, TRUE) /\ InitProcess
SpecSequence == InitSequence /\ [][NextSequence]_vars

\* one generate_sql() call on an agent whose database connection is open
Question == "Top rows?"
CallGenerateSql == \E q \in Corpus : \E answered \in BOOLEAN :
                       \E explain \in ExplainAnswers(conn) :
                           GenerateSql(Question, q, answered, explain)
NextAgent == \/ CallGenerateSql \/ AgentValidate \/ RunCheck \/ FinishValidate
             \/ AgentValidated \/ AgentOptimize \/ ApplyRule \/ FinishOptimize
             \/ AgentOptimized
InitAgentCall == /\ InitValidator(ConnLive) /\ InitOptimizer /\ InitProcess
                 /\ \E validation, optimization \in BOOLEAN :
                        InitAgent(validation, optimization)
SpecAgent == InitAgentCall /\ [][NextAgent]_vars

\* generate_sql() calls one after the other on one agent with validation and
\* optimization enabled: the caller asks a question, in one of two spellings, again
\* and again; the language model, when asked, answers with one of these queries
Questions == { "Top rows?", " top rows? " }
Replies == { "SELECT a, b FROM t, u", "SELECT a FROM t WHERE x = 1", "SELECT * FROM t" }
\* the caller has the dictionary of the last call and calls again: no validate()
\* or optimize() call is running
AskAgain ==
    /\ a_pc = "done" /\ Len(a_history) < MaxCalls
    /\ a_pc' = "idle" /\ v_pc' = "idle" /\ o_pc' = "idle"
    /\ UNCHANGED <<cvars, conn, stats, v_i, v_query, v_context, v_result, v_log, v_history, v_calls,
                   ostats, o_i, o_context, original_query, sql_query,
                   optimizations_applied, o_result, o_log, o_history, iteration,
                   enable_validation, enable_optimization, enhanced_stats, a_sql,
                   a_result, query_cache, a_alias, a_history>>
AskQuestion == \E question \in Questions : \E q \in Replies : \E answered \in BOOLEAN :
                   \E explain \in ExplainAnswers(conn) :
                       GenerateSql(question, q, answered, explain)
NextCache == \/ AskQuestion \/ AgentValidate \/ RunCheck \/ FinishValidate
             \/ AgentValidated \/ AgentOptimize \/ ApplyRule \/ FinishOptimize
             \/ AgentOptimized \/ AskAgain
InitCache == /\ InitValidator(ConnLive) /\ InitOptimizer /\ InitProcess
             /\ InitAgent(TRUE, TRUE)
SpecCache == InitCache /\ [][NextCache]_vars

\* calls on one QueryCache, created over a directory that is empty or holds the
\* files a cache of size two wrote at time 0
CacheQueries == { "Top rows", "top rows ", "All users" }
Patterns == { "ROWS", "users" }
EarlierFiles ==
    (get_cache_key("Top rows") :> [query |-> "Top rows", timestamp |-> 0, ttl |-> ttl_seconds])
    @@ (get_cache_key("All users") :>
            [query |-> "All users", timestamp |-> 0, ttl |-> ttl_seconds])
MaxSizes == {1, 2}
Strategies == {"lru", "lfu", "ttl"}
CallGet == \E query \in CacheQueries : get(query)
CallSet == \E query \in CacheQueries : \E ttl_override \in {0, 2} : set(query, ttl_override)
CallInvalidate == invalidate_all \/ \E pattern \in Patterns : invalidate(pattern)
NextQueryCache == CallGet \/ CallSet \/ CallInvalidate \/ cleanup_expired \/ Tick
InitQueryCacheCalls ==
    /\ InitValidator(ConnNone) /\ InitOptimizer /\ InitAgent(TRUE, TRUE) /\ iteration = {}
    /\ \E size \in MaxSizes : \E strat \in Strategies : \E dir \in {<< >>, EarlierFiles} :
           InitQueryCache(size, strat, dir)
SpecQueryCache == InitQueryCacheCalls /\ [][NextQueryCache]_vars

(***************************************************************************)
(* Properties of validate()                                                *)
(***************************************************************************)
\* sub occurs in s when letter case is ignored
ContainsCI(s, sub) ==
    \E i \in 1..(Len(s) - Len(sub) + 1) :
        Lower(SubSeq(s, i, i + Len(sub) - 1)) = Lower(sub)
StartsWithCI(s, p) == Len(s) >= Len(p) /\ Lower(SubSeq(s, 1, Len(p))) = Lower(p)

Blacklist == { "DROP", "DELETE", "TRUNCATE", "ALTER", "CREATE", "REPLACE", "INSERT",
               "UPDATE", "GRANT", "REVOKE", "EXEC", "EXECUTE", "SHUTDOWN", "RENAME",
               "ATTACH", "DETACH" }

\* the entries of v_log of the checks named in names that returned a result
Reports(names) ==
    {j \in 1..Len(v_log) : v_log[j].name \in names /\ ~v_log[j].raised}

\* C1: a query that contains one of the 16 blacklisted keywords, in any letter case
\* and anywhere in its text, is returned with is_valid false, risk_level "high", a
\* non-empty security_issues list and an error that names the keyword.
C1_BlacklistedKeywordRejected ==
    v_pc = "done" =>
        \A kw \in Blacklist :
            ContainsCI(v_query, kw) =>
                /\ ~v_result.is_valid
                /\ v_result.risk_level = "high"
                /\ v_result.security_issues # <<>>
                /\ \E j \in 1..Len(v_result.errors) : Contains(v_result.errors[j], kw)

\* a finished validation of a query that holds a keyword in lower or mixed case only
C1_Witness ==
    /\ v_pc = "done"
    /\ \E kw \in Blacklist : ContainsCI(v_query, kw) /\ ~Contains(v_query, kw)
    /\ ~v_result.is_valid
    /\ v_result.risk_level = "high"

\* C2 as amended: risk_level is "high" exactly when security_issues or errors is
\* non-empty; it is "medium" exactly when both are empty and there are more than 3
\* warnings; it is "low" in every other case.
C2_RiskLevelByPriority ==
    v_pc = "done" =>
        LET high == v_result.security_issues # <<>> \/ v_result.errors # <<>>
            many == Len(v_result.warnings) > 3
        IN /\ v_result.risk_level = "high" <=> high
           /\ v_result.risk_level = "medium" <=> (~high /\ many)
           /\ v_result.risk_level = "low" <=> (~high /\ ~many)

\* C2 as stated: "high" iff security_issues or errors is non-empty, "medium" iff
\* there are more than 3 warnings, "low" otherwise.
C2_AsStated ==
    v_pc = "done" =>
        LET high == v_result.security_issues # <<>> \/ v_result.errors # <<>>
            many == Len(v_result.warnings) > 3
        IN /\ v_result.risk_level = "high" <=> high
           /\ v_result.risk_level = "medium" <=> many
           /\ v_result.risk_level = "low" <=> (~high /\ ~many)

\* a finished validation with an error and more than 3 warnings
C2_Witness ==
    /\ v_pc = "done"
    /\ v_result.errors # <<>>
    /\ Len(v_result.warnings) > 3
    /\ v_result.risk_level = "high"

\* C3: when the security, syntax or schema check reported an error the result has
\* is_valid false; when no check reported an error the result has is_valid true,
\* however many warnings there are.
C3_ErrorsDecideValidity ==
    v_pc = "done" =>
        /\ (\E j \in Reports({"security", "syntax", "schema"}) :
                v_log[j].result.errors # <<>>) => ~v_result.is_valid
        /\ (\A j \in Reports(Range(checks)) : v_log[j].result.errors = <<>>)
               => v_result.is_valid

\* a finished validation in which only the schema check reported an error
C3_Witness ==
    /\ v_pc = "done"
    /\ \E j \in Reports({"schema"}) : v_log[j].result.errors # <<>>
    /\ \A j \in Reports(Range(checks) \ {"schema"}) : v_log[j].result.errors = <<>>
    /\ ~v_result.is_valid

\* FROM, a table name, a comma and another table name
CommaSeparatedFrom(q) ==
    \E i \in 1..Len(q) :
        LET p1 == SkipSpace(q, i + 4)
            p2 == SkipWord(q, p1)
            p3 == SkipSpace(q, p2)
            p4 == SkipSpace(q, p3 + 1)
        IN /\ StartsWithCI(SubSeq(q, i, Len(q)), "FROM")
           /\ p1 > i + 4 /\ p2 > p1
           /\ At(q, p3, ",")
           /\ p4 <= Len(q) /\ IsWord(Char(q, p4))

\* the first half of C4: the structure, performance and best-practices checks report
\* no error and do not fail, and the logic check reports no error for an
\* always-true, always-false or "= NULL" finding
C4_WarningsOnly ==
    v_pc = "done" =>
        /\ \A j \in Reports({"structure", "performance", "best_practices"}) :
               v_log[j].result.errors = <<>> /\ v_log[j].result.passed
        /\ \A j \in Reports({"logic"}) :
               /\ \A n \in 1..Len(v_log[j].result.errors) :
                      v_log[j].result.errors[n] = "Contradictory conditions detected"
               /\ ~v_log[j].result.passed => v_log[j].result.errors # <<>>

\* C4: the structure, performance and best-practices checks and the logic check's
\* always-true, always-false and "= NULL" findings add no error; and a query with
\* two or more comma-separated FROM tables, no JOIN, no WHERE and no error is
\* returned with is_valid true and exactly one performance_issues entry,
\* {type: cartesian_product, severity: high}.
C4_CartesianReported ==
    (v_pc = "done" =>
        ((/\ CommaSeparatedFrom(v_query)
          /\ ~ContainsCI(v_query, "JOIN")
          /\ ~ContainsCI(v_query, "WHERE")
          /\ v_result.errors = <<>>)
         => /\ v_result.is_valid
            /\ v_result.performance_issues
                   = <<[type |-> "cartesian_product", severity |-> "high"]>>))
    /\ C4_WarningsOnly

(***************************************************************************)
(* Properties of optimize()                                                *)
(***************************************************************************)
\* a query the limit rule is meant for
NeedsLimit(q) ==
    /\ StartsWithCI(q, "SELECT")
    /\ ~ContainsCI(q, "LIMIT")
    /\ ~ContainsCI(q, "COUNT(")
\* context.default_limit, or 100 when none is given
LimitOf(ctx) == IF ~ctx.none /\ "default_limit" \in ctx.keys THEN ctx.default_limit ELSE 100
\* how many times LIMIT is written in a query, in any letter case
Limits(q) == Count(Lower(q), "limit")

\* C5: a query that starts with SELECT and contains neither LIMIT nor COUNT( is
\* returned ending with "LIMIT <n>", n being context.default_limit or 100 when
\* there is none; optimizing the output again, any number of times, adds no
\* further LIMIT.
C5_LimitInjectedOnce ==
    \A p \in 1..Len(o_history) :
        NeedsLimit(o_history[1].original_query) =>
            /\ EndsWith(o_history[p].optimized_query, "LIMIT " \o ToStr(LimitOf(o_context)))
            /\ Limits(o_history[p].optimized_query) = 1

\* a query without LIMIT, optimized twice with a context that gives default_limit
C5_Witness ==
    /\ o_pc = "done"
    /\ Len(o_history) = 2
    /\ NeedsLimit(o_history[1].original_query)
    /\ "default_limit" \in o_context.keys
    /\ o_history[1].optimizations_applied # <<>>
    /\ o_history[2].original_query = o_history[1].optimized_query
    /\ EndsWith(o_result.optimized_query, " LIMIT 50")

\* C6: after one optimize() pass every COUNT(*) of the input, in whatever letter
\* case, has become COUNT(1) in optimized_query.
C6_CountStarRewritten ==
    o_pc = "done" =>
        (ContainsCI(o_result.original_query, "COUNT(*)") =>
            /\ ~ContainsCI(o_result.optimized_query, "COUNT(*)")
            /\ ContainsCI(o_result.optimized_query, "COUNT(1)"))

\* C7 as amended: improvement_score lies in [0, 100], and it is 0 whenever
\* optimized_query equals original_query.
C7_ScoreRangeAndZero ==
    o_pc = "done" =>
        /\ o_result.improvement_score \in 0..100
        /\ (o_result.optimized_query = o_result.original_query)
               => o_result.improvement_score = 0

\* C7 as stated: improvement_score lies in [0, 100], and it is 0 if and only if
\* optimized_query equals original_query, so that a result with is_optimized true
\* has a score above 0.
C7_AsStated ==
    o_pc = "done" =>
        /\ o_result.improvement_score \in 0..100
        /\ (o_result.improvement_score = 0)
               <=> (o_result.optimized_query = o_result.original_query)
        /\ o_result.is_optimized => o_result.improvement_score > 0

\* an optimize() call that ran all its rules and returned the query it was given
C7_Witness ==
    /\ o_pc = "done"
    /\ Len(o_log) = Len(optimization_rules)
    /\ o_result.original_query # ""
    /\ o_result.optimized_query = o_result.original_query
    /\ ~o_result.is_optimized
    /\ o_result.improvement_score = 0

\* the sum C8 gives for a changed query
C8_Sum(original, optimized) ==
      (IF Contains(optimized, "LIMIT") /\ ~Contains(original, "LIMIT") THEN 20 ELSE 0)
    + (IF Count(optimized, "*") < Count(original, "*") THEN 15 ELSE 0)
    + (IF Contains(optimized, "EXISTS") /\ ~Contains(original, "EXISTS") THEN 10 ELSE 0)
    + (IF Len(optimized) < Len(original) /\ ~Contains(optimized, "-- WARNING")
       THEN 5 ELSE 0)
    + (IF Contains(optimized, "COUNT(1)") /\ Contains(original, "COUNT(*)") THEN 5 ELSE 0)

\* C8: for a changed query improvement_score is min(100, 20 for a LIMIT new in the
\* output + 15 for fewer "*" + 10 for an EXISTS new in the output + 5 for a shorter
\* output without cartesian warning + 5 for COUNT(1) in place of COUNT(*)); a
\* SELECT changed by the limit rule alone scores 20.
C8_ScoreFormula ==
    o_pc = "done" /\ o_result.optimized_query # o_result.original_query =>
        LET sum == C8_Sum(o_result.original_query, o_result.optimized_query)
        IN /\ o_result.improvement_score = (IF sum < 100 THEN sum ELSE 100)
           /\ (/\ StartsWithCI(o_result.original_query, "SELECT")
               /\ o_result.optimizations_applied = <<" Add Limit If Missing">>)
                  => o_result.improvement_score = 20

\* the names of the ten rules in the order of C9
RuleOrder ==
    << " Normalize Whitespace", " Add Limit If Missing", " Optimize Wildcards",
       " Optimize Joins", " Optimize Subqueries", " Add Index Hints",
       " Optimize Date Functions", " Prevent Cartesian Product",
       " Optimize Aggregations", " Optimize Order By" >>
\* what rule i of this call handed on
HandedOn(i) == IF o_log[i].raised THEN o_log[i].before ELSE o_log[i].out
\* the rules of this call whose output differed from their input, in call order
Changed ==
    SelectSeq([i \in 1..Len(o_log) |-> i],
              LAMBDA i : ~o_log[i].raised /\ o_log[i].out # o_log[i].before)

\* C9: the rules run in the fixed order whitespace, limit, wildcards, joins,
\* subqueries, index hints, date functions, cartesian guard, aggregations, order-by,
\* each one receiving what the previous one handed on; optimizations_applied holds,
\* in that order and without duplicates, exactly the names of the rules whose
\* output differed from their input, and optimization_count is its length.
C9_FixedRuleOrder ==
    /\ Len(o_log) <= Len(RuleOrder)
    /\ \A i \in 1..Len(o_log) :
           /\ RuleTitle(o_log[i].rule) = RuleOrder[i]
           /\ o_log[i].before = (IF i = 1 THEN original_query ELSE HandedOn(i - 1))
    /\ o_pc = "done" =>
           /\ Len(o_log) = Len(RuleOrder)
           /\ o_result.optimizations_applied = [n \in 1..Len(Changed) |-> RuleOrder[Changed[n]]]
           /\ o_result.optimization_count = Len(o_result.optimizations_applied)
           /\ \A m, n \in 1..Len(o_result.optimizations_applied) :
                  m # n => o_result.optimizations_applied[m] # o_result.optimizations_applied[n]

\* a finished call in which at least three rules changed the query and one did not
C9_Witness ==
    /\ o_pc = "done"
    /\ Len(o_result.optimizations_applied) >= 3
    /\ \E i \in 1..Len(o_log) : ~o_log[i].raised /\ o_log[i].out = o_log[i].before
    /\ \E i \in 2..Len(o_log) : o_log[i].before # original_query

\* C10: when a rule raises, the next rule receives the text the failing rule
\* received, the failing rule's name is not in optimizations_applied, every later
\* rule still runs, and optimize() returns a result.
C10_FailingRuleSkipped ==
    /\ \A i \in 1..Len(o_log) :
           o_log[i].raised =>
               /\ i < Len(o_log) => o_log[i + 1].before = o_log[i].before
               /\ i = Len(o_log) => sql_query = o_log[i].before
               /\ RuleTitle(o_log[i].rule) \notin Range(optimizations_applied)
    /\ o_pc = "rules" => o_i = Len(o_log) + 1
    /\ o_pc = "done" =>
           /\ Len(o_log) = Len(optimization_rules)
           /\ o_result.optimized_query = HandedOn(Len(o_log))
           /\ \A i \in 1..Len(o_log) :
                  o_log[i].raised =>
                      RuleTitle(o_log[i].rule) \notin Range(o_result.optimizations_applied)

\* a finished call in which a rule raised and a later rule changed the query
C10_Witness ==
    /\ o_pc = "done"
    /\ \E i, j \in 1..Len(o_log) :
           /\ i < j
           /\ o_log[i].raised
           /\ ~o_log[j].raised /\ o_log[j].out # o_log[j].before
           /\ RuleTitle(o_log[j].rule) \in Range(o_result.optimizations_applied)

(***************************************************************************)
(* Properties of validate() when a check fails or has nothing to check     *)
(***************************************************************************)
\* the order in which validate() is documented to run its checks
CheckOrder == << "security", "syntax", "structure", "performance", "schema", "logic",
                 "best_practices" >>
\* the calls of check functions that raised
Failures == {j \in 1..Len(v_log) : v_log[j].raised}

\* C11: when a check raises, validate() still returns: it adds the warning
\* 'Could not complete <check> check' for that check, is_valid stays what the checks
\* that returned decided, and every later check runs, in the order security, syntax,
\* structure, performance, schema, logic, best_practices.
C11_FailedCheckDowngraded ==
    /\ \A j \in 1..Len(v_log) : v_log[j].name = CheckOrder[j]
    /\ v_pc = "checking" => v_i = Len(v_log) + 1
    /\ \A j \in Failures :
           \E w \in 1..Len(v_result.warnings) :
               v_result.warnings[w] = "Could not complete " \o CheckOrder[j] \o " check"
    /\ v_pc \in {"checking", "done"} =>
           v_result.is_valid = (\A j \in Reports(Range(CheckOrder)) : v_log[j].result.passed)
    /\ v_pc = "done" => Len(v_log) = Len(CheckOrder)

\* a finished validation that is valid although a check raised, with the checks
\* after the failing one having returned
C11_Witness ==
    /\ v_pc = "done" /\ v_result.is_valid
    /\ \E j \in Failures : \A k \in (j + 1)..Len(CheckOrder) : ~v_log[k].raised

\* the validator has no connection and the context supplies no schema
NothingToCheckAgainst == ~conn.live /\ (v_context.none \/ ~HasKey(v_context, "schema"))

\* C12: with no live connection and no schema in the context (context absent, or
\* present without a schema field) the schema check returns passed=true, contributes
\* no error, and adds a warning beginning 'Schema validation skipped'.
C12_SchemaCheckSkipped ==
    \A j \in 1..Len(v_log) :
        v_log[j].name = "schema" /\ NothingToCheckAgainst =>
            /\ ~v_log[j].raised
            /\ v_log[j].result.passed
            /\ v_log[j].result.errors = <<>>
            /\ \E w \in 1..Len(v_log[j].result.warnings) :
                   StartsWith(v_log[j].result.warnings[w], "Schema validation skipped")

(***************************************************************************)
(* Properties of the security, schema and syntax checks                    *)
(***************************************************************************)
\* the query without its single-quoted and then its double-quoted literals
WithoutLiterals(q) == StripQuoted(StripQuoted(q, "'"), "\"")
\* validate() reported the query as multiple statements
MultipleReported(j) ==
    /\ \E e \in 1..Len(v_log[j].result.errors) :
           v_log[j].result.errors[e] = "Multiple SQL statements detected"
    /\ \E n \in 1..Len(v_log[j].result.issues) :
           v_log[j].result.issues[n].type = "multiple_statements"
NotMultipleReported(j) ==
    /\ \A e \in 1..Len(v_log[j].result.errors) :
           v_log[j].result.errors[e] # "Multiple SQL statements detected"
    /\ \A n \in 1..Len(v_log[j].result.issues) :
           v_log[j].result.issues[n].type # "multiple_statements"
SecurityCalls == {j \in 1..Len(v_log) : v_log[j].name = "security"}

\* C13 as amended: a query that, after its quoted literals are removed, holds a ';'
\* followed somewhere by a character other than ';' is reported as 'Multiple SQL
\* statements detected' with a multiple_statements security issue and is invalid; a
\* query whose semicolons all stand in one run at its end is not reported.
C13_SemicolonBeforeOtherText ==
    v_pc = "done" =>
        \A j \in SecurityCalls :
            \E c \in {WithoutLiterals(v_query)} :
                LET inner == \E i \in 1..Len(c) : \E k \in (i + 1)..Len(c) :
                                 Char(c, i) = ";" /\ Char(c, k) # ";"
                IN /\ ~v_log[j].raised
                   /\ inner => MultipleReported(j) /\ ~v_result.is_valid
                   /\ ~inner => NotMultipleReported(j)

\* C13 as stated: every ';' before the final character of the query without its
\* literals is reported as multiple statements.
C13_AsStated ==
    v_pc = "done" =>
        \A j \in SecurityCalls :
            \E c \in {WithoutLiterals(v_query)} :
                (\E i \in 1..(Len(c) - 1) : Char(c, i) = ";")
                    => MultipleReported(j) /\ ~v_result.is_valid

\* a finished validation of a query with a second statement after a ';', reported
\* and invalid
C13_Witness ==
    /\ v_pc = "done" /\ ~v_result.is_valid
    /\ MultipleReported(1)
    /\ \E c \in {WithoutLiterals(v_query)} :
           \E i \in 1..Len(c) : \E k \in (i + 1)..Len(c) :
               Char(c, i) = ";" /\ Char(c, k) # ";"

\* the words that follow the keyword kw and white space somewhere in q
NamedAfter(q, kw) ==
    {SubSeq(q, p, SkipWord(q, p) - 1) :
        p \in {SkipSpace(q, i + Len(kw)) : 
                  i \in {k \in 1..Len(q) : AtCI(q, k, kw) /\ IsSpace(Char(q, k + Len(kw)))}}}
        \ {""}
\* no table of the database has the name t, whatever the letter case
Absent(t) == \A n \in 1..Len(conn.tables) : Lower(conn.tables[n]) # Lower(t)
\* every schema entry of the context has the documented shape {columns: [...]}
WellFormed(ctx) == \A n \in 1..Len(ctx.schema) : ctx.schema[n].info.kind = "dict"
SchemaCalls == {j \in 1..Len(v_log) : v_log[j].name = "schema"}

CountChar(q, ch, n) == Cardinality({i \in 1..n : Char(q, i) = ch})
\* some prefix holds more ')' than '(', or the totals differ
ParenthesesUnbalanced(q) ==
    \/ \E n \in 1..Len(q) : CountChar(q, ")", n) > CountChar(q, "(", n)
    \/ CountChar(q, ")", Len(q)) # CountChar(q, "(", Len(q))
QuotesOdd(q) ==
    \/ CountChar(q, "'", Len(q)) % 2 = 1
    \/ CountChar(q, "\"", Len(q)) % 2 = 1
SyntaxCalls == {j \in 1..Len(v_log) : v_log[j].name = "syntax"}

\* C15: the syntax check reports 'Unbalanced parentheses' exactly when some prefix of
\* the query holds more ')' than '(' or the totals differ, and 'Unbalanced quotes'
\* exactly when the number of single quotes or of double quotes is odd; either report
\* makes is_valid=false; a query with properly nested parentheses gets neither.
C15_BalanceReports ==
    \A j \in SyntaxCalls :
        LET errs == Range(v_log[j].result.errors)
        IN v_pc = "done" =>
           /\ ~v_log[j].raised
           /\ "Unbalanced parentheses" \in errs <=> ParenthesesUnbalanced(v_query)
           /\ "Unbalanced quotes" \in errs <=> QuotesOdd(v_query)
           /\ ("Unbalanced parentheses" \in errs \/ "Unbalanced quotes" \in errs)
                  => ~v_result.is_valid /\ ~v_log[j].result.passed

\* a finished validation of a query with as many ')' as '(' and a ')' first, reported
\* as unbalanced and invalid
C15_Witness ==
    /\ v_pc = "done" /\ ~v_result.is_valid
    /\ CountChar(v_query, ")", Len(v_query)) = CountChar(v_query, "(", Len(v_query))
    /\ CountChar(v_query, ")", Len(v_query)) > 0
    /\ \E j \in SyntaxCalls : "Unbalanced parentheses" \in Range(v_log[j].result.errors)

(***************************************************************************)
(* Properties of the agent's pipeline                                      *)
(***************************************************************************)
\* C16: in generate_sql with validation and optimization enabled, validate() is
\* called on the candidate SQL and has returned before optimize() is called; when
\* validate() returns is_valid=false, optimize() is not called for that query and
\* the returned result has success=false.
C16_ValidateBeforeOptimize ==
    enable_validation /\ enable_optimization =>
        /\ v_pc # "idle" => v_query = a_result.sql_query \/ v_query = original_query
        /\ o_pc # "idle" =>
               v_pc = "done" /\ v_result.is_valid /\ v_query = original_query
        /\ v_pc = "done" /\ ~v_result.is_valid =>
               /\ o_pc = "idle"
               /\ a_pc = "done" => ~a_result.success /\ a_result.sql_query = v_query
        /\ a_pc = "done" /\ a_result.success => o_pc = "done"

\* a generate_sql call that ended without success because the validator rejected
\* the candidate SQL, with the optimizer never called
C16_Witness ==
    /\ enable_validation /\ enable_optimization
    /\ a_pc = "done" /\ ~a_result.success
    /\ v_pc = "done" /\ ~v_result.is_valid /\ v_query = a_result.sql_query
    /\ o_pc = "idle" /\ ostats = ZeroOptStats

(***************************************************************************)
(* Properties of single optimization rules                                 *)
(***************************************************************************)
\* WHERE col IN (SELECT ..., the shape the subquery rule looks for
HasInSubquery(q) ==
    \E i \in 1..Len(q) :
        LET a == SkipSpace(q, i + 5)
            b == SkipSpace(q, SkipWord(q, a))
            c == SkipSpace(q, b + 2)
        IN /\ AtCI(q, i, "WHERE") /\ a > i + 5 /\ SkipWord(q, a) > a
           /\ b > SkipWord(q, a) /\ AtCI(q, b, "IN")
           /\ At(q, c, "(") /\ AtCI(q, SkipSpace(q, c + 1), "SELECT")
\* the context without its table sizes
WithoutTableSizes(ctx) == [ctx EXCEPT !.keys = @ \ {"table_sizes"}]

C18_ResetKeepsCountersConsistent ==
    v_pc = "done" =>
        stats.queries_passed + stats.queries_failed <= stats.queries_validated

\* what the database answered during a validate() call
OracleAnswers(call) == [k \in 1..Len(call.log) |-> call.log[k].explain]
\* the fields of an optimize() result the callers read
Outcome(r) == <<r.optimized_query, r.optimizations_applied, r.improvement_score>>

ComparisonOperators == {"=", "!=", "<>", "<=", ">=", "<", ">"}
TwoCharacterOperators == {op \in ComparisonOperators : Len(op) = 2}
\* the operator op stands in s after position i with no space on either side
Unspaced(s, op, i) ==
    /\ i >= 1 /\ ~IsSpace(Char(s, i)) /\ At(s, i + 1, op)
    /\ i + 1 + Len(op) <= Len(s) /\ ~IsSpace(Char(s, i + 1 + Len(op)))
\* the operator op stands in s at position p with a single space on either side
Spaced(s, op, p) ==
    /\ At(s, p, op)
    /\ p > 1 /\ Char(s, p - 1) = " " /\ Char(s, p + Len(op)) = " "
NormalizeCalls == {i \in 1..Len(o_log) : o_log[i].rule = "_normalize_whitespace"}

\* C20: whitespace normalization turns every comparison operator among =, !=, <>,
\* <=, >=, <, > written without surrounding spaces into the same operator with a
\* single space on either side, and never splits a two-character operator.
C20_OperatorsSpaced ==
    \A i \in NormalizeCalls :
        /\ ~o_log[i].raised
        /\ \A op \in TwoCharacterOperators :
               /\ Count(o_log[i].out, op) = Count(o_log[i].before, op)
               /\ \A p \in 1..Len(o_log[i].out) :
                      At(o_log[i].out, p, op) => Spaced(o_log[i].out, op, p)
        /\ \A op \in ComparisonOperators : \A p \in 1..Len(o_log[i].out) :
               ~Unspaced(o_log[i].out, op, p)


(***************************************************************************)
(* C21: contradictory conditions                                           *)
(***************************************************************************)
\* a whole identifier starts at i and is compared with '=' to a value
EqualityAt(q, i) ==
    /\ WordAt(q, i) /\ Boundary(q, i)
    /\ ValueStart(q, SkipWord(q, i)) # 0
ComparedName(q, i) == Upper(SubSeq(q, i, SkipWord(q, i) - 1))
ComparedValue(q, i) ==
    SubSeq(q, ValueStart(q, SkipWord(q, i)),
           SkipNonSpace(q, ValueStart(q, SkipWord(q, i))) - 1)
\* one column name is compared with '=' to two different values, with an AND between
SameColumnTwoValues(q) ==
    \E i \in {k \in 1..Len(q) : EqualityAt(q, k)} :
        \E j \in {k \in (i + 1)..Len(q) : EqualityAt(q, k)} :
            /\ ComparedName(q, i) = ComparedName(q, j)
            /\ ComparedValue(q, i) # ComparedValue(q, j)
            /\ \E d \in SkipWord(q, i)..j : AtCI(q, d, "AND")
LogicCalls == {j \in 1..Len(v_log) : v_log[j].name = "logic"}

\* C21: the logic check reports 'Contradictory conditions detected' only for a query
\* in which one and the same column name is compared with '=' to two different values
\* in conditions joined by AND; equalities on different column names are not rejected.
C21_ContradictionOnlySameColumn ==
    v_pc = "done" =>
        \A j \in LogicCalls :
            InSeq("Contradictory conditions detected", v_log[j].result.errors)
                => SameColumnTwoValues(v_query)


(***************************************************************************)
(* C22: ORDER BY removal                                                   *)
(***************************************************************************)
\* the query has a LIMIT whose value is the number 1
LimitValueIsOne(q) ==
    \E i \in 1..Len(q) :
        /\ AtCI(q, i, "LIMIT")
        /\ SkipSpace(q, i + 5) > i + 5
        /\ At(q, SkipSpace(q, i + 5), "1")
        /\ SkipDigits(q, SkipSpace(q, i + 5)) = SkipSpace(q, i + 5) + 1
HasMinMaxCall(q) == ContainsCI(q, "MIN(") \/ ContainsCI(q, "MAX(")
OrderByCalls == {i \in 1..Len(o_log) : o_log[i].rule = "_optimize_order_by"}

\* C22: the order-by rule changes its input (removes the ORDER BY clause) only when
\* the LIMIT value is exactly 1 and the query calls MIN( or MAX(; with any other LIMIT
\* value, written by the caller or injected by the limit rule, the query is unchanged.
C22_OrderByKeptUnlessLimitOne ==
    \A i \in OrderByCalls :
        (~o_log[i].raised /\ o_log[i].out # o_log[i].before)
            => LimitValueIsOne(o_log[i].before) /\ HasMinMaxCall(o_log[i].before)


(***************************************************************************)
(* C23: RIGHT JOIN conversion                                              *)
(***************************************************************************)
\* the text holds <identifier> RIGHT JOIN <identifier>
RightJoinBetweenIdentifiers(q) == \E k \in 1..Len(q) : RightJoinAt(q, k).e # 0
JoinCalls == {i \in 1..Len(o_log) : o_log[i].rule = "_optimize_joins"}

\* C23: the join rule rewrites every '<A> RIGHT JOIN <B>' of its input, each join of
\* several consecutive RIGHT JOINs included, so that its output holds no RIGHT JOIN
\* between two identifiers.
C23_NoRightJoinLeft ==
    \A i \in JoinCalls :
        ~o_log[i].raised => ~RightJoinBetweenIdentifiers(o_log[i].out)


(***************************************************************************)
(* C24: risk level and validity                                            *)
(***************************************************************************)
\* C24: for every validate() result, risk_level is "high" if and only if is_valid is
\* false: every failing check adds at least one error, every check that adds an error
\* fails, and security issues are recorded only by a failing security check.
C24_HighRiskIffInvalid ==
    v_pc = "done" =>
        /\ v_result.risk_level = "high" <=> ~v_result.is_valid
        /\ \A j \in 1..Len(v_log) :
               ~v_log[j].raised =>
                   /\ ~v_log[j].result.passed <=> v_log[j].result.errors # <<>>
                   /\ v_log[j].result.issues # <<>> /\ v_log[j].name = "security"
                          => ~v_log[j].result.passed


\* a finished validation that no security issue but a later check made invalid, rated
\* high
C24_Witness ==
    /\ v_pc = "done"
    /\ ~v_result.is_valid
    /\ v_result.security_issues = <<>>
    /\ v_result.risk_level = "high"


(***************************************************************************)
(* C25: the validator's counters under sequential use                      *)
(***************************************************************************)
IssueCounters == {"security_violations", "syntax_errors", "performance_warnings"}

\* C25: between non-interleaved validate() and reset_statistics() calls on one
\* validator, queries_validated is the number of validate() calls since construction
\* or the last reset, it equals queries_passed + queries_failed, and security_violations,
\* syntax_errors and performance_warnings are each at most queries_validated; after a
\* reset every counter is 0.
C25_CountersConsistent ==
    /\ stats.queries_validated = v_calls
    /\ v_pc # "checking" =>
           /\ stats.queries_validated = stats.queries_passed + stats.queries_failed
           /\ \A c \in IssueCounters : stats[c] <= stats.queries_validated
    /\ v_calls = 0 => stats = ZeroStats

\* two calls after a reset that followed an earlier call: both counted, one passed and
\* one failed, with a security violation and a performance warning
C25_Witness ==
    /\ v_pc = "done"
    /\ Len(v_history) = 3 /\ v_calls = 2
    /\ stats.queries_passed = 1 /\ stats.queries_failed = 1
    /\ stats.security_violations = 1 /\ stats.performance_warnings = 1


(***************************************************************************)
(* Properties of the agent's query cache                                   *)
(***************************************************************************)
\* the call number n of a_history has returned to its caller
HasReturned(n) == n < Len(a_history) \/ a_pc = "done"
\* call m is the first successful call for its question
FirstSuccessful(m) ==
    /\ a_history[m].result.success
    /\ \A k \in 1..(m - 1) :
           _get_cache_key(a_history[k].question) = _get_cache_key(a_history[m].question)
               => ~a_history[k].result.success

\* C26: in EnhancedTextToSQLAgent.generate_sql, asking the same question again (a
\* query-cache hit) returns the same success flag and the same sql_query as the
\* first successful call for that question: the cached entry is not changed by the
\* validation/optimization step, and running that step again on a cache hit
\* yields the identical SQL.
C26_CacheHitSameAnswer ==
    \A m \in 1..Len(a_history) : \A n \in (m + 1)..Len(a_history) :
        /\ _get_cache_key(a_history[n].question) = _get_cache_key(a_history[m].question)
        /\ HasReturned(n)
        /\ FirstSuccessful(m)
        => /\ a_history[n].result.success = a_history[m].result.success
           /\ a_history[n].result.sql_query = a_history[m].result.sql_query


(***************************************************************************)
(* Properties of optimize() applied to its own output                      *)
(***************************************************************************)
\* C27: optimize() is idempotent: for every query q and context c, optimizing
\* optimize(q, c).optimized_query again with the same context returns it
\* unchanged (is_optimized false, no rule applied), also when the first pass put
\* an index-hint, join-suggestion or cartesian-warning comment line in front.
C27_OptimizeIdempotent ==
    \A k \in 2..Len(o_history) :
        /\ o_history[k].original_query = o_history[k - 1].optimized_query
        /\ o_history[k].optimized_query = o_history[k - 1].optimized_query
        /\ ~o_history[k].is_optimized
        /\ o_history[k].optimizations_applied = << >>


\* the database answered every EXPLAIN of the validate() call number j
DatabaseAnswered(j) ==
    \A n \in 1..Len(v_history[j].log) : v_history[j].log[n].explain.ok

\* C28: the optimizer preserves validity: when validate(q) returns is_valid true,
\* validate(optimize(q, c).optimized_query) returns is_valid true as well; no rule
\* brings in text that a check of the validator rejects.
C28_OptimizeKeepsValid ==
    \A i \in 1..Len(v_history) : \A j \in 1..Len(v_history) : \A k \in 1..Len(o_history) :
        /\ v_history[i].result.is_valid
        /\ o_history[k].original_query = v_history[i].query
        /\ v_history[j].query = o_history[k].optimized_query
        /\ v_history[j].context = v_history[i].context
        /\ DatabaseAnswered(j)
        => v_history[j].result.is_valid


(***************************************************************************)
(* Properties of string literals under optimize()                          *)
(***************************************************************************)
\* the number of single quotes of q before position i
QuotesBefore(q, i) == Cardinality({k \in 1..(i - 1) : Char(q, k) = "'"})
\* the single-quoted string literals of q, quotes included: each runs from an
\* opening quote to the next quote
Literals(q) ==
    { SubSeq(q, i, j) : <<i, j>> \in
        { p \in (1..Len(q)) \X (1..Len(q)) :
            /\ p[1] < p[2] /\ Char(q, p[1]) = "'" /\ Char(q, p[2]) = "'"
            /\ QuotesBefore(q, p[1]) % 2 = 0
            /\ QuotesBefore(q, p[2]) = QuotesBefore(q, p[1]) + 1 } }

\* C29: optimize() never changes the characters inside a single-quoted string
\* literal of the query: a run of several spaces or an '=', '<' or '>' character
\* inside a literal appears unchanged in optimized_query.  The date rule, which
\* rewrites a date literal on purpose, is left aside.
C29_LiteralsUnchanged ==
    o_pc = "done" /\ ~InSeq(" Optimize Date Functions", o_result.optimizations_applied) =>
        \A literal \in Literals(o_result.original_query) :
            Contains(o_result.optimized_query, literal)


(***************************************************************************)
(* Properties of the QueryCache                                            *)
(***************************************************************************)
\* C30: after any sequence of set(), get(), invalidate() and cleanup_expired()
\* calls on a QueryCache, also on one created over a cache_dir that holds entries
\* written by an earlier instance, memory_cache never has more than max_size
\* entries, and memory_cache, access_counts and access_times have the same keys.
C30_CacheWithinMaxSize ==
    /\ Len(memory_cache) <= max_size
    /\ DictKeys(memory_cache) = DictKeys(access_counts)
    /\ DictKeys(memory_cache) = DictKeys(access_times)

=============================================================================
